---- MODULE Spec2Model ----
(***************************************************************************)
(* A model of the inverse-kinematics solver components of rbfx             *)
(* (Source/Urho3D/IK/IKSolverComponent.cpp): the node cache and the        *)
(* Initialize protocol, the three-phase Solve of a component, the Identity *)
(* solver, and the triangle helpers of the Leg solver.                     *)
(* The last part models the session, the frame handlers and the hands of   *)
(* the OpenXR subsystem (Source/Urho3D/XR/XR.cpp).                         *)
(***************************************************************************)
EXTENDS Integers, Sequences, FiniteSets, TLC

(***************************************************************************)
(* Bounds of the model.                                                    *)
(***************************************************************************)
\* Scene nodes below the component's node: 1..NumNodes.
NumNodes == 2
\* Solver components of the rig: 1..NumComps.
NumComps == 2
\* Longest "Bone Names" list of a Chain or Spine solver.
MaxChainLen == 2
\* World positions are the coordinates 0..MaxCoord.
MaxCoord == 1
\* Frames (updates of the host) in one run.
MaxFrames == 3

(***************************************************************************)
(* The scene (external collaborator): node 0 is the node the components    *)
(* and the IKSolver are attached to, 1..NumNodes are its descendants.      *)
(* Descendant n bears the name n; the name 0 is borne by no descendant     *)
(* (the attribute default, EMPTY_STRING, in a hierarchy of named bones).   *)
(***************************************************************************)
Sign(n) == IF n > 0 THEN 1 ELSE IF n < 0 THEN -1 ELSE 0
Abs(n) == IF n < 0 THEN -n ELSE n

node_ == 0
Descendants == 1 .. NumNodes
SceneNodes == {node_} \cup Descendants
Names == 0 .. NumNodes
nullNode == NumNodes + 1
nullIKNode == 0
Comps == 1 .. NumComps

NameOf(n) == n

\* Node::GetChild(name, recursive = true): the first descendant bearing the
\* name, or null.
GetChild(name) ==
    IF \E n \in Descendants : NameOf(n) = name
    THEN CHOOSE n \in Descendants :
            /\ NameOf(n) = name
            /\ \A m \in Descendants : NameOf(m) = name => n <= m
    ELSE nullNode

(***************************************************************************)
(* Quaternions <<w, x, y, z>> with integer components.  The rotations of   *)
(* the model are the eight unit quaternions +-1, +-i, +-j, +-k.            *)
(***************************************************************************)
Quaternion_ZERO == <<0, 0, 0, 0>>
Quaternion_IDENTITY == <<1, 0, 0, 0>>
QuatI == <<0, 1, 0, 0>>
QuatJ == <<0, 0, 1, 0>>

\* Quaternion::operator*(rhs): the Hamilton product.
QuatMul(a, b) ==
    << a[1] * b[1] - a[2] * b[2] - a[3] * b[3] - a[4] * b[4],
       a[1] * b[2] + a[2] * b[1] + a[3] * b[4] - a[4] * b[3],
       a[1] * b[3] + a[3] * b[1] + a[4] * b[2] - a[2] * b[4],
       a[1] * b[4] + a[4] * b[1] + a[2] * b[3] - a[3] * b[2] >>

QuatLengthSquared(q) == q[1] * q[1] + q[2] * q[2] + q[3] * q[3] + q[4] * q[4]

\* Quaternion::Inverse(): the conjugate of a unit quaternion; the identity
\* for a quaternion of length zero.
QuatInverse(q) ==
    IF QuatLengthSquared(q) = 1
    THEN << q[1], 0 - q[2], 0 - q[3], 0 - q[4] >>
    ELSE Quaternion_IDENTITY

(***************************************************************************)
(* State.                                                                   *)
(***************************************************************************)
VARIABLES
    scene,       \* [SceneNodes -> [position, rotation]]: world transforms
    comps,       \* [Comps -> solver component]
    nodeCache,   \* IKNodeCache: [index: node -> entry, nodes: Seq(IKNode)]
    host,        \* the IKSolver: [solversDirty, solvers, pc, idx]
    lastInit,    \* [Comps -> "none" | "ok" | "failed"]: result of the last Initialize
    wrote,       \* scene attributes written by the last write-back
    pullScene,   \* the scene as it was when the running Solve began
    pullOffset,  \* rotationOffset_ as it was when the running Solve began
    calc,        \* the call of a geometry helper: its arguments, locals and result
    xr           \* the OpenXR subsystem and, behind it, the OpenXR runtime

vars == << scene, comps, nodeCache, host, lastInit, wrote, pullScene, pullOffset, calc, xr >>
\* The rig: everything but the call of a helper.
rigVars == << scene, comps, nodeCache, host, lastInit, wrote, pullScene, pullOffset >>

\* No helper is being called.
NoCalc == [ pc |-> "none" ]
\* No OpenXR subsystem is registered.
NoXR == [ pc |-> "none" ]

SolverTypes == {"Identity", "Trigonometric", "Chain", "Leg", "Spine", "Arm"}

\* IKNode{}: a value-initialised node.
IKNode_New ==
    [ position |-> 0, rotation |-> Quaternion_IDENTITY,
      previousPosition |-> 0, previousRotation |-> Quaternion_IDENTITY,
      positionDirty |-> FALSE, rotationDirty |-> FALSE ]

EmptyCache == [ index |-> [n \in Descendants |-> nullIKNode], nodes |-> << >> ]

(***************************************************************************)
(* The node cache and the registration of bones and targets.               *)
(***************************************************************************)
\* Emplace as insert-or-assign into a new entry: a bug that replaces the
\* entry of a bone that is already cached.
Emplace_Replace(cache, boneNode) ==
    [ index |-> [cache.index EXCEPT ![boneNode] = Len(cache.nodes) + 1],
      nodes |-> Append(cache.nodes, IKNode_New) ]

\* nodeCache.emplace(key, IKNode{}): inserts a fresh IKNode unless the key is
\* present; an existing entry is kept as it is.
Emplace(cache, boneNode) ==
    IF cache.index[boneNode] # nullIKNode
    THEN cache
    ELSE [ index |-> [cache.index EXCEPT ![boneNode] = Len(cache.nodes) + 1],
           nodes |-> Append(cache.nodes, IKNode_New) ]

\* IKSolverComponent::AddSolverNode.  st = [cache, solverNodes]; the result
\* is the IKNode of the bone (nullIKNode: the name does not resolve).
AddSolverNode(st, name) ==
    LET boneNode == GetChild(name) IN
    IF boneNode = nullNode
    THEN [ cache |-> st.cache, solverNodes |-> st.solverNodes,
           result |-> nullIKNode ]
    ELSE LET cache2 == Emplace(st.cache, boneNode)
             solverNode == cache2.index[boneNode]
         IN  [ cache |-> cache2,
               solverNodes |-> Append(st.solverNodes, << boneNode, solverNode >>),
               result |-> solverNode ]

\* IKSolverComponent::AddCheckedNode: registers the node in the cache and
\* returns the scene node; the component does not own it.
AddCheckedNode(cache, name) ==
    LET boneNode == GetChild(name) IN
    IF boneNode = nullNode
    THEN [ cache |-> cache, result |-> nullNode ]
    ELSE [ cache |-> Emplace(cache, boneNode), result |-> boneNode ]

\* AddSolverNode for each name in turn, stopping at the first that does not
\* resolve: [cache, solverNodes, bones, ok], bones the IKNodes resolved.
RECURSIVE AddSolverNodes(_, _, _)
AddSolverNodes(st, names, bones) ==
    IF names = << >>
    THEN [ cache |-> st.cache, solverNodes |-> st.solverNodes,
           bones |-> bones, ok |-> TRUE ]
    ELSE LET r == AddSolverNode(st, Head(names)) IN
         IF r.result = nullIKNode
         THEN [ cache |-> r.cache, solverNodes |-> r.solverNodes,
                bones |-> bones, ok |-> FALSE ]
         ELSE AddSolverNodes([cache |-> r.cache, solverNodes |-> r.solverNodes],
                             Tail(names), Append(bones, r.result))

(***************************************************************************)
(* InitializeNodes of the six solver types.  Each takes the component (its *)
(* solverNodes_ already cleared) and the cache and returns                 *)
(* [ok, comp, cache].                                                      *)
(***************************************************************************)
InitFailed(c, cache) == [ ok |-> FALSE, comp |-> c, cache |-> cache ]

\* InitializeNodes of the Identity solver without the check of the bone.
IKIdentitySolver_InitializeNodes_NoBoneCheck(c, cache) ==
    LET t == AddCheckedNode(cache, c.targetName)
        c1 == [c EXCEPT !.target_ = t.result]
    IN  IF t.result = nullNode THEN InitFailed(c1, t.cache)
        ELSE LET b == AddSolverNode([cache |-> t.cache, solverNodes |-> c1.solverNodes_],
                                    c.boneNames[1])
             IN  [ ok |-> TRUE,
                   comp |-> [c1 EXCEPT !.boneNode_ = b.result,
                                       !.solverNodes_ = b.solverNodes],
                   cache |-> b.cache ]

IKIdentitySolver_InitializeNodes(c, cache) ==
    LET t == AddCheckedNode(cache, c.targetName)
        c1 == [c EXCEPT !.target_ = t.result]
    IN  IF t.result = nullNode THEN InitFailed(c1, t.cache)
        ELSE LET b == AddSolverNode([cache |-> t.cache, solverNodes |-> c1.solverNodes_],
                                    c.boneNames[1])
                 c2 == [c1 EXCEPT !.boneNode_ = b.result,
                                  !.solverNodes_ = b.solverNodes]
             IN  IF b.result = nullIKNode THEN InitFailed(c2, b.cache)
                 ELSE [ ok |-> TRUE, comp |-> c2, cache |-> b.cache ]

\* The chain solvers: the target, then every bone in order; the chain (and
\* the segment) is assigned only when every bone resolved.
InitializeChainNodes(c, cache, chainBones, segmentBones) ==
    LET t == AddCheckedNode(cache, c.targetName)
        c1 == [c EXCEPT !.target_ = t.result]
    IN  IF t.result = nullNode THEN InitFailed(c1, t.cache)
        ELSE LET r == AddSolverNodes([cache |-> t.cache, solverNodes |-> c1.solverNodes_],
                                     c.boneNames, << >>)
                 c2 == [c1 EXCEPT !.solverNodes_ = r.solverNodes]
             IN  IF ~r.ok THEN InitFailed(c2, r.cache)
                 ELSE [ ok |-> TRUE,
                        comp |-> [c2 EXCEPT
                                    !.chain_ = [i \in DOMAIN chainBones |->
                                                   r.bones[chainBones[i]]],
                                    !.segment_ = [i \in DOMAIN segmentBones |->
                                                     r.bones[segmentBones[i]]]],
                        cache |-> r.cache ]

IKChainSolver_InitializeNodes(c, cache) ==
    InitializeChainNodes(c, cache, [i \in DOMAIN c.boneNames |-> i], << >>)

IKTrigonometrySolver_InitializeNodes(c, cache) ==
    InitializeChainNodes(c, cache, << 1, 2, 3 >>, << >>)

\* InitializeNodes of the Leg solver without the check of the toe bone.
IKLegSolver_InitializeNodes_NoToeCheck(c, cache) ==
    LET r == InitializeChainNodes([c EXCEPT !.boneNames = SubSeq(@, 1, 3)], cache,
                                  << 1, 2, 3 >>, << 3, 3 >>)
    IN  [r EXCEPT !.comp.boneNames = c.boneNames]

\* The chain is thigh, calf, heel; the foot segment is heel, toe.
IKLegSolver_InitializeNodes(c, cache) ==
    InitializeChainNodes(c, cache, << 1, 2, 3 >>, << 3, 4 >>)

IKSpineSolver_InitializeNodes(c, cache) ==
    InitializeChainNodes(c, cache, [i \in DOMAIN c.boneNames |-> i], << >>)

\* The shoulder segment is shoulder, arm; the chain is arm, forearm, hand.
IKArmSolver_InitializeNodes(c, cache) ==
    InitializeChainNodes(c, cache, << 2, 3, 4 >>, << 1, 2 >>)

\* The virtual call InitializeNodes(nodeCache).
InitializeNodes(c, cache) ==
    CASE c.type = "Identity" -> IKIdentitySolver_InitializeNodes(c, cache)
      [] c.type = "Trigonometric" -> IKTrigonometrySolver_InitializeNodes(c, cache)
      [] c.type = "Chain" -> IKChainSolver_InitializeNodes(c, cache)
      [] c.type = "Leg" -> IKLegSolver_InitializeNodes(c, cache)
      [] c.type = "Spine" -> IKSpineSolver_InitializeNodes(c, cache)
      [] c.type = "Arm" -> IKArmSolver_InitializeNodes(c, cache)

\* Initialize that does not clear the list of owned nodes.
IKSolverComponent_Initialize_NoClear(c, cache) == InitializeNodes(c, cache)

\* IKSolverComponent::Initialize.
IKSolverComponent_Initialize(c, cache) ==
    InitializeNodes([c EXCEPT !.solverNodes_ = << >>], cache)


(***************************************************************************)
(* IKNode operations (declared in the IK headers).                         *)
(***************************************************************************)
\* IKNode::StorePreviousTransform.
StorePreviousTransform(n) ==
    [n EXCEPT !.previousPosition = n.position, !.previousRotation = n.rotation]

\* IKNode::MarkPositionDirty, IKNode::MarkRotationDirty.
MarkPositionDirty(n) == [n EXCEPT !.positionDirty = TRUE]
MarkRotationDirty(n) == [n EXCEPT !.rotationDirty = TRUE]

(***************************************************************************)
(* IKSolverComponent::Solve, in its three phases.                          *)
(***************************************************************************)
\* The first loop of Solve, keeping the transform of a node that is marked
\* dirty instead of reading it from the scene.
RECURSIVE PullTransforms_KeepDirty(_, _, _)
PullTransforms_KeepDirty(nodes, solverNodes, sc) ==
    IF solverNodes = << >> THEN nodes
    ELSE LET node == Head(solverNodes)[1]
             solverNode == Head(solverNodes)[2]
             old == nodes[solverNode]
             pulled == IF old.positionDirty \/ old.rotationDirty THEN old
                       ELSE [old EXCEPT !.position = sc[node].position,
                                        !.rotation = sc[node].rotation]
         IN  PullTransforms_KeepDirty(
                 [nodes EXCEPT ![solverNode] = StorePreviousTransform(pulled)],
                 Tail(solverNodes), sc)

\* The first loop of Solve without the copy of the rotation.
RECURSIVE PullTransforms_PositionOnly(_, _, _)
PullTransforms_PositionOnly(nodes, solverNodes, sc) ==
    IF solverNodes = << >> THEN nodes
    ELSE LET node == Head(solverNodes)[1]
             solverNode == Head(solverNodes)[2]
             pulled == [nodes[solverNode] EXCEPT !.position = sc[node].position]
         IN  PullTransforms_PositionOnly(
                 [nodes EXCEPT ![solverNode] = StorePreviousTransform(pulled)],
                 Tail(solverNodes), sc)

\* The first loop of Solve: every owned IKNode takes the world transform of
\* its scene node and stores it as its previous transform.
RECURSIVE PullTransforms(_, _, _)
PullTransforms(nodes, solverNodes, sc) ==
    IF solverNodes = << >> THEN nodes
    ELSE LET node == Head(solverNodes)[1]
             solverNode == Head(solverNodes)[2]
             pulled == [nodes[solverNode] EXCEPT
                            !.position = sc[node].position,
                            !.rotation = sc[node].rotation]
         IN  PullTransforms([nodes EXCEPT ![solverNode] = StorePreviousTransform(pulled)],
                            Tail(solverNodes), sc)

\* A write-back that ignores positionDirty_.
WritesPosition_Always(solverNode) == TRUE

\* Whether the write-back loop writes the position (the rotation) of a node.
WritesPosition(solverNode) == solverNode.positionDirty
WritesRotation(solverNode) == solverNode.rotationDirty

\* The second loop of Solve: SetWorldPosition / SetWorldRotation of every
\* owned node whose flag is set.  [scene, wrote].
RECURSIVE WriteBack(_, _, _)
WriteBack(nodes, solverNodes, acc) ==
    IF solverNodes = << >> THEN acc
    ELSE LET node == Head(solverNodes)[1]
             solverNode == nodes[Head(solverNodes)[2]]
             sc1 == IF WritesPosition(solverNode)
                    THEN [acc.scene EXCEPT ![node].position = solverNode.position]
                    ELSE acc.scene
             sc2 == IF WritesRotation(solverNode)
                    THEN [sc1 EXCEPT ![node].rotation = solverNode.rotation]
                    ELSE sc1
             w == acc.wrote
                    \cup (IF WritesPosition(solverNode) THEN {<< node, "position" >>} ELSE {})
                    \cup (IF WritesRotation(solverNode) THEN {<< node, "rotation" >>} ELSE {})
         IN  WriteBack(nodes, Tail(solverNodes), [scene |-> sc2, wrote |-> w])

(***************************************************************************)
(* The Identity solver.                                                    *)
(***************************************************************************)
\* UpdateRotationOffset without the inverse of the node's rotation.
UpdateRotationOffset_NoInverse(c, sc) ==
    LET boneNode == GetChild(c.boneNames[1]) IN
    IF boneNode # nullNode
    THEN [c EXCEPT !.rotationOffset_ =
                QuatMul(sc[node_].rotation, sc[boneNode].rotation)]
    ELSE c

\* IKIdentitySolver::UpdateRotationOffset.
UpdateRotationOffset(c, sc) ==
    LET boneNode == GetChild(c.boneNames[1]) IN
    IF boneNode # nullNode
    THEN [c EXCEPT !.rotationOffset_ =
                QuatMul(QuatInverse(sc[node_].rotation), sc[boneNode].rotation)]
    ELSE c

\* IKIdentitySolver::EnsureInitialized.
IKIdentitySolver_EnsureInitialized(c, sc) ==
    IF c.rotationOffset_ = Quaternion_ZERO THEN UpdateRotationOffset(c, sc) ELSE c

\* The offset applied on the wrong side.
IdentityBoneRotation_Swapped(targetRotation, rotationOffset) ==
    QuatMul(rotationOffset, targetRotation)

\* The rotation SolveInternal gives the bone.
IdentityBoneRotation(targetRotation, rotationOffset) ==
    QuatMul(targetRotation, rotationOffset)

\* IKIdentitySolver::SolveInternal: [comp, nodes].
IKIdentitySolver_SolveInternal(c, nodes, sc) ==
    LET c1 == IKIdentitySolver_EnsureInitialized(c, sc)
        posed == [nodes[c1.boneNode_] EXCEPT
                      !.position = sc[c1.target_].position,
                      !.rotation = IdentityBoneRotation(sc[c1.target_].rotation,
                                                        c1.rotationOffset_)]
    IN  [ comp |-> c1,
          nodes |-> [nodes EXCEPT ![c1.boneNode_] =
                        MarkRotationDirty(MarkPositionDirty(posed))] ]

(***************************************************************************)
(* The chain solvers (Trigonometric, Chain, Leg, Spine, Arm) pose their    *)
(* nodes in the chain classes of the IK headers.  Here a solve of one of   *)
(* them is any posing that keeps the IKNode contract: each owned node is   *)
(* left alone or gets a new position and/or rotation, and what is changed  *)
(* is marked dirty.  A plan says, per owned node, which of the two         *)
(* attributes the solve poses; a posed attribute takes the target's value. *)
(***************************************************************************)

Plans(c) ==
    IF c.type = "Identity" THEN { << >> }
    ELSE [ DOMAIN c.solverNodes_ ->
             [ position : BOOLEAN, rotation : BOOLEAN ] ]

RECURSIVE PoseNodes(_, _, _, _, _)
PoseNodes(nodes, solverNodes, plan, i, to) ==
    IF i > Len(solverNodes) THEN nodes
    ELSE LET k == solverNodes[i][2]
             n0 == nodes[k]
             n1 == IF plan[i].position
                   THEN MarkPositionDirty([n0 EXCEPT !.position = to.position])
                   ELSE n0
             n2 == IF plan[i].rotation
                   THEN MarkRotationDirty([n1 EXCEPT !.rotation = to.rotation])
                   ELSE n1
         IN  PoseNodes([nodes EXCEPT ![k] = n2], solverNodes, plan, i + 1, to)

ChainSolver_SolveInternal(c, nodes, sc, plan) ==
    [ comp |-> c, nodes |-> PoseNodes(nodes, c.solverNodes_, plan, 1, sc[c.target_]) ]

\* IKNodeSegment::UpdateLength and the chains' UpdateLengths: the distance
\* between the positions of each two consecutive nodes.
UpdateLengths(chain, positions) ==
    [i \in 1 .. Len(chain) - 1 |-> Abs(positions[chain[i + 1]] - positions[chain[i]])]

\* The virtual call UpdateChainLengths(): nothing for the Identity solver,
\* the lengths of the chain and then of the segment for the others.
UpdateChainLengths(c, positions) ==
    IF c.type = "Identity" THEN c
    ELSE [c EXCEPT !.lengths_ = UpdateLengths(c.chain_, positions)
                                   \o UpdateLengths(c.segment_, positions)]

\* IKSolverComponent::NotifyPositionsReady.
NotifyPositionsReady(c, positions) == UpdateChainLengths(c, positions)

\* SolveInternal that measures the lengths again once it has posed the nodes.
SolveInternal_UpdatesLengths(c, nodes, sc, plan) ==
    LET r == IF c.type = "Identity"
             THEN IKIdentitySolver_SolveInternal(c, nodes, sc)
             ELSE ChainSolver_SolveInternal(c, nodes, sc, plan)
    IN  [r EXCEPT !.comp = UpdateChainLengths(r.comp,
                               [k \in DOMAIN r.nodes |-> r.nodes[k].position])]

\* The virtual call SolveInternal(settings).
SolveInternal(c, nodes, sc, plan) ==
    IF c.type = "Identity"
    THEN IKIdentitySolver_SolveInternal(c, nodes, sc)
    ELSE ChainSolver_SolveInternal(c, nodes, sc, plan)

(***************************************************************************)
(* The host (IKSolver) and the editor and the animation around it.  One    *)
(* frame: rebuild the solvers if they are dirty (Initialize every          *)
(* component on a cleared cache, keep those that succeed), then Solve      *)
(* every kept component in order.                                          *)
(***************************************************************************)
NewComponent(type, targetName, boneNames) ==
    [ type |-> type, targetName |-> targetName, boneNames |-> boneNames,
      rotationOffset_ |-> Quaternion_ZERO,
      target_ |-> nullNode, boneNode_ |-> nullIKNode,
      chain_ |-> << >>, segment_ |-> << >>, lengths_ |-> << >>,
      solverNodes_ |-> << >>, attached |-> TRUE ]

\* Offsets the editor sets.
OffsetChoices == {Quaternion_ZERO, QuatJ}

\* Poses the animation gives a scene node.
Poses ==
    { [position |-> 0, rotation |-> Quaternion_IDENTITY],
      [position |-> MaxCoord, rotation |-> QuatI] }

NoScene == << >>

\* The host's position once solver number idx is due.
SolveFrom(h, idx) ==
    IF idx <= Len(h.solvers)
    THEN [h EXCEPT !.pc = "pull", !.idx = idx]
    ELSE [h EXCEPT !.pc = "idle", !.idx = 1]

\* IKSolver::MarkSolversDirty.
MarkSolversDirty(h) == [h EXCEPT !.solversDirty = TRUE]

\* OnTreeDirty that tells the IKSolver nothing.
OnTreeDirty_NoMark(h, c) == h

\* IKSolverComponent::OnTreeDirty: the IKSolver of the component's node, if
\* the component is attached to one, is told to rebuild its solvers.
OnTreeDirty(h, c) == IF c.attached THEN MarkSolversDirty(h) ELSE h

\* IKSolverComponent::OnNodeSet: the IKSolver of the previous node and the
\* one of the current node are told to rebuild their solvers.  The only
\* node with an IKSolver is node_.
OnNodeSet(h, previousNode, currentNode) ==
    LET h1 == IF previousNode = node_ THEN MarkSolversDirty(h) ELSE h
    IN  IF currentNode = node_ THEN MarkSolversDirty(h1) ELSE h1

\* The host keeps a component exactly when its Initialize succeeded.
KeepSolver(ok) == ok

\* A frame begins.
HostUpdate ==
    /\ host.pc = "idle"
    /\ host.frame < MaxFrames
    /\ IF host.solversDirty
       THEN /\ host' = [host EXCEPT !.solversDirty = FALSE, !.solvers = << >>,
                                    !.pc = "rebuild", !.idx = 1, !.frame = @ + 1]
            /\ nodeCache' = EmptyCache
       ELSE /\ Len(host.solvers) > 0
            /\ host' = [SolveFrom(host, 1) EXCEPT !.frame = @ + 1]
            /\ UNCHANGED nodeCache
    /\ UNCHANGED << scene, comps, lastInit, wrote, pullScene, pullOffset, calc, xr >>

\* The rebuild initializes the next component.
HostInitialize ==
    /\ host.pc = "rebuild"
    /\ host.idx <= NumComps
    /\ LET c == host.idx
           r == IKSolverComponent_Initialize(comps[c], nodeCache)
       IN  IF comps[c].attached
           THEN /\ comps' = [comps EXCEPT ![c] = r.comp]
                /\ nodeCache' = r.cache
                /\ lastInit' = [lastInit EXCEPT ![c] = IF r.ok THEN "ok" ELSE "failed"]
                /\ host' = [host EXCEPT !.idx = c + 1,
                               !.solvers = IF KeepSolver(r.ok) THEN Append(@, c) ELSE @]
           ELSE /\ host' = [host EXCEPT !.idx = c + 1]
                /\ lastInit' = [lastInit EXCEPT ![c] = "none"]
                /\ UNCHANGED << comps, nodeCache >>
    /\ UNCHANGED << scene, wrote, pullScene, pullOffset, calc, xr >>

\* The positions the host has ready for the IKNodes of a component: the
\* world positions of their scene nodes.
PositionsReady(c) ==
    [k \in { c.solverNodes_[i][2] : i \in DOMAIN c.solverNodes_ } |->
        scene[c.solverNodes_[CHOOSE i \in DOMAIN c.solverNodes_ :
                                c.solverNodes_[i][2] = k][1]].position]

\* The rebuild is over: the kept components are told that the positions are
\* ready, and are solved.
HostRebuildDone ==
    /\ host.pc = "rebuild"
    /\ host.idx > NumComps
    /\ host' = SolveFrom(host, 1)
    /\ comps' = [c \in Comps |->
                   IF \E i \in DOMAIN host.solvers : host.solvers[i] = c
                   THEN NotifyPositionsReady(comps[c], PositionsReady(comps[c]))
                   ELSE comps[c]]
    /\ UNCHANGED << scene, nodeCache, lastInit, wrote, pullScene, pullOffset, calc, xr >>

\* Solve, first loop.
SolvePull ==
    /\ host.pc = "pull"
    /\ LET c == comps[host.solvers[host.idx]] IN
       nodeCache' = [nodeCache EXCEPT
                        !.nodes = PullTransforms(@, c.solverNodes_, scene)]
    /\ pullScene' = scene
    /\ pullOffset' = comps[host.solvers[host.idx]].rotationOffset_
    /\ host' = [host EXCEPT !.pc = "internal"]
    /\ UNCHANGED << scene, comps, lastInit, wrote, calc, xr >>

\* Solve, the call of SolveInternal.
SolveInternalStep ==
    /\ host.pc = "internal"
    /\ LET i == host.solvers[host.idx] IN
       \E plan \in Plans(comps[i]) :
          LET r == SolveInternal(comps[i], nodeCache.nodes, scene, plan) IN
          /\ comps' = [comps EXCEPT ![i] = r.comp]
          /\ nodeCache' = [nodeCache EXCEPT !.nodes = r.nodes]
    /\ host' = [host EXCEPT !.pc = "writeback"]
    /\ UNCHANGED << scene, lastInit, wrote, pullScene, pullOffset, calc, xr >>

\* Solve, second loop.
SolveWriteBack ==
    /\ host.pc = "writeback"
    /\ LET c == comps[host.solvers[host.idx]]
           r == WriteBack(nodeCache.nodes, c.solverNodes_,
                          [scene |-> scene, wrote |-> {}])
       IN  /\ scene' = r.scene
           /\ wrote' = r.wrote
    /\ host' = [host EXCEPT !.pc = "solved"]
    /\ UNCHANGED << comps, nodeCache, lastInit, pullScene, pullOffset, calc, xr >>

\* Solve returns; the next component is solved, or the frame ends.
SolveReturn ==
    /\ host.pc = "solved"
    /\ host' = SolveFrom(host, host.idx + 1)
    /\ wrote' = {}
    /\ pullScene' = NoScene
    /\ pullOffset' = Quaternion_ZERO
    /\ UNCHANGED << scene, comps, nodeCache, lastInit, calc, xr >>

\* The editor sets a "Target Name" attribute.
SetTargetName(c, name) ==
    /\ host.pc = "idle"
    /\ comps[c].targetName # name
    /\ comps' = [comps EXCEPT ![c].targetName = name]
    /\ host' = OnTreeDirty(host, comps[c])
    /\ UNCHANGED << scene, nodeCache, lastInit, wrote, pullScene, pullOffset, calc, xr >>

\* The editor sets a bone-name attribute: one of the "... Bone Name"
\* attributes, or the "Bone Names" vector of a Chain or Spine solver.
SetBoneNames(c, names) ==
    /\ host.pc = "idle"
    /\ comps[c].boneNames # names
    /\ comps[c].type \notin {"Chain", "Spine"} =>
          /\ Len(names) = Len(comps[c].boneNames)
          /\ \E i \in DOMAIN names : \A j \in DOMAIN names \ {i} : names[j] = comps[c].boneNames[j]
    /\ comps' = [comps EXCEPT ![c].boneNames = names]
    /\ host' = OnTreeDirty(host, comps[c])
    /\ UNCHANGED << scene, nodeCache, lastInit, wrote, pullScene, pullOffset, calc, xr >>

\* The component is removed from its node.
Detach(c) ==
    /\ host.pc = "idle"
    /\ comps[c].attached
    /\ comps' = [comps EXCEPT ![c].attached = FALSE]
    /\ host' = OnNodeSet(host, node_, nullNode)
    /\ UNCHANGED << scene, nodeCache, lastInit, wrote, pullScene, pullOffset, calc, xr >>

\* The component is added to the node of the IKSolver.
Attach(c) ==
    /\ host.pc = "idle"
    /\ ~comps[c].attached
    /\ comps' = [comps EXCEPT ![c].attached = TRUE]
    /\ host' = OnNodeSet(host, nullNode, node_)
    /\ UNCHANGED << scene, nodeCache, lastInit, wrote, pullScene, pullOffset, calc, xr >>

\* The editor sets the "Rotation Offset" attribute.
SetRotationOffset(c, q) ==
    /\ host.pc = "idle"
    /\ comps[c].type = "Identity"
    /\ comps[c].rotationOffset_ # q
    /\ comps' = [comps EXCEPT ![c].rotationOffset_ = q]
    /\ UNCHANGED << scene, nodeCache, host, lastInit, wrote, pullScene, pullOffset, calc, xr >>

\* The animation poses a descendant between two frames.
MoveNode(n, pose) ==
    /\ host.pc = "idle"
    /\ scene[n] # pose
    /\ scene' = [scene EXCEPT ![n] = pose]
    /\ UNCHANGED << comps, nodeCache, host, lastInit, wrote, pullScene, pullOffset, calc, xr >>

RestScene(rootRotation) ==
    [n \in SceneNodes |->
        [ position |-> 0,
          rotation |-> IF n = node_ THEN rootRotation ELSE Quaternion_IDENTITY ]]

InitHost ==
    [ solversDirty |-> TRUE, solvers |-> << >>, pc |-> "idle", idx |-> 1, frame |-> 0 ]

\* The bone-name lists a solver of the type can be configured with.
NameLists(len) == [1 .. len -> Names]

BoneNameChoices(type) ==
    CASE type = "Identity" -> NameLists(1)
      [] type = "Trigonometric" -> NameLists(3)
      [] type \in {"Leg", "Arm"} -> NameLists(4)
      [] type \in {"Chain", "Spine"} -> UNION { NameLists(len) : len \in 0 .. MaxChainLen }

Components(types) ==
    UNION { { NewComponent(t, tn, bn) : tn \in Names, bn \in BoneNameChoices(t) } : t \in types }

\* A rig with its names configured: an Identity solver with any target and
\* bone name, and Chain solvers that follow the same target over the chain
\* of the first MaxChainLen descendants.
Init ==
    /\ scene = RestScene(QuatJ)
    /\ \E first \in Components({"Identity"}) :
          comps = [c \in Comps |->
                      IF c = 1 THEN first
                      ELSE NewComponent("Chain", first.targetName,
                                        [i \in 1 .. MaxChainLen |-> i])]
    /\ nodeCache = EmptyCache
    /\ host = InitHost
    /\ lastInit = [c \in Comps |-> "none"]
    /\ wrote = {}
    /\ pullScene = NoScene
    /\ pullOffset = Quaternion_ZERO
    /\ calc = NoCalc
    /\ xr = NoXR

Next ==
    \/ HostUpdate
    \/ HostInitialize
    \/ HostRebuildDone
    \/ SolvePull
    \/ SolveInternalStep
    \/ SolveWriteBack
    \/ SolveReturn
    \/ \E c \in Comps, q \in OffsetChoices : SetRotationOffset(c, q)
    \/ \E n \in Descendants, pose \in Poses : MoveNode(n, pose)

Spec == Init /\ [][Next]_vars

\* A rig with a solver of any type, its names configured in any way, and
\* Identity solvers beside it that pose the first descendant after the
\* last.  The editor renames the target of the first solver.
InitRig ==
    /\ scene = RestScene(QuatJ)
    /\ \E first \in Components(SolverTypes) :
          comps = [c \in Comps |->
                      IF c = 1 THEN first
                      ELSE NewComponent("Identity", NumNodes, << 1 >>)]
    /\ nodeCache = EmptyCache
    /\ host = InitHost
    /\ lastInit = [c \in Comps |-> "none"]
    /\ wrote = {}
    /\ pullScene = NoScene
    /\ pullOffset = Quaternion_ZERO
    /\ calc = NoCalc
    /\ xr = NoXR

NextRig ==
    \/ HostUpdate
    \/ HostInitialize
    \/ HostRebuildDone
    \/ SolvePull
    \/ SolveInternalStep
    \/ SolveWriteBack
    \/ SolveReturn
    \/ \E name \in Names : SetTargetName(1, name)

SpecRig == InitRig /\ [][NextRig]_vars

\* A rig with a solver of any type that the editor reconfigures between the
\* frames: it renames the target and the bones, sets the rotation offset,
\* and removes the component from the node and adds it again.
InitEdit ==
    /\ scene = RestScene(QuatJ)
    /\ \E t \in SolverTypes :
          comps = [c \in Comps |->
                      IF c = 1
                      THEN NewComponent(t, NumNodes,
                               [i \in 1 .. (CASE t = "Identity" -> 1
                                              [] t = "Trigonometric" -> 3
                                              [] t \in {"Leg", "Arm"} -> 4
                                              [] OTHER -> MaxChainLen) |-> 1])
                      ELSE NewComponent("Identity", NumNodes, << 1 >>)]
    /\ nodeCache = EmptyCache
    /\ host = InitHost
    /\ lastInit = [c \in Comps |-> "none"]
    /\ wrote = {}
    /\ pullScene = NoScene
    /\ pullOffset = Quaternion_ZERO
    /\ calc = NoCalc
    /\ xr = NoXR

\* The editor changes the topology once between two frames.
OneEdit == ~host.solversDirty

NextEdit ==
    \/ HostUpdate
    \/ HostInitialize
    \/ HostRebuildDone
    \/ SolvePull
    \/ SolveInternalStep
    \/ SolveWriteBack
    \/ SolveReturn
    \/ OneEdit /\ \E name \in Names : SetTargetName(1, name)
    \/ OneEdit /\ \E names \in BoneNameChoices(comps[1].type) : SetBoneNames(1, names)
    \/ \E q \in OffsetChoices : SetRotationOffset(1, q)
    \/ OneEdit /\ Detach(1)
    \/ OneEdit /\ Attach(1)

SpecEdit == InitEdit /\ [][NextEdit]_vars

(***************************************************************************)
(* DrawDebugGeometry.  The debug renderer is given lines and spheres at    *)
(* the positions of the IKNodes the solver holds and at the target; the    *)
(* call is kept as the IKNodes it reads, the positions it reads from them  *)
(* and the position of the target.  It runs between two frames.            *)
(***************************************************************************)
\* GetBeginNode / GetMiddleNode / GetEndNode and the nodes of a segment:
\* null before the chain or the segment is initialized.
ChainNode(chain, i) == IF i \in DOMAIN chain THEN chain[i] ELSE nullIKNode

\* The nodes read without the test that none of them is null.
IfNonNull_Unchecked(bones) == bones

\* if (a && b && ...): the nodes are read when none of them is null.
IfNonNull(bones) == IF nullIKNode \notin bones THEN bones ELSE {}

\* The IKNodes the DrawDebugGeometry of the solver's type reads.
DrawnNodes(c) ==
    CASE c.type = "Identity" -> IfNonNull({c.boneNode_})
      [] c.type = "Trigonometric" ->
            IfNonNull({ ChainNode(c.chain_, i) : i \in 1 .. 3 })
      [] c.type = "Leg" ->
            IfNonNull({ ChainNode(c.chain_, i) : i \in 1 .. 3 })
               \cup IfNonNull({ ChainNode(c.chain_, 3), ChainNode(c.segment_, 2) })
      [] c.type = "Arm" ->
            IfNonNull({ ChainNode(c.chain_, i) : i \in 1 .. 3 })
               \cup IfNonNull({ ChainNode(c.segment_, 1), ChainNode(c.chain_, 1) })
      [] c.type = "Spine" ->
            UNION { { c.chain_[i], c.chain_[i + 1] } : i \in 1 .. Len(c.chain_) - 1 }
      [] c.type = "Chain" -> {}

\* The IKNodes of a component are those of the cache when its last
\* Initialize succeeded; after a rebuild that skipped it or in which it
\* failed, non-null nodes it still holds are dangling.
HoldsLiveNodes(c) == lastInit[c] = "ok"

DrawDebugGeometry(c) ==
    /\ host.pc = "idle"
    /\ calc = NoCalc
    /\ LET reads == DrawnNodes(comps[c]) IN
       \E positions \in [reads -> 0 .. MaxCoord] :
          /\ HoldsLiveNodes(c) =>
                \A k \in reads : positions[k] = nodeCache.nodes[k].position
          /\ calc' = [ pc |-> "drawn", op |-> "DrawDebugGeometry", comp |-> c,
                       reads |-> reads, positions |-> positions,
                       target |-> IF comps[c].target_ # nullNode
                                  THEN << scene[comps[c].target_].position >>
                                  ELSE << >> ]
    /\ UNCHANGED << rigVars, xr >>

\* The frame's debug geometry is rendered and dropped.
DrawReturn ==
    /\ calc # NoCalc
    /\ calc.pc = "drawn"
    /\ calc' = NoCalc
    /\ UNCHANGED << rigVars, xr >>

NextDraw ==
    \/ calc = NoCalc /\ NextRig
    \/ \E c \in Comps : DrawDebugGeometry(c)
    \/ DrawReturn

SpecDraw == InitRig /\ [][NextDraw]_vars

(***************************************************************************)
(* Numbers.  A float is an exact rational << n, d >> in lowest terms with  *)
(* d > 0, or one of the IEEE specials: << 1, 0 >> is +Inf, << -1, 0 >> is  *)
(* -Inf and << 0, 0 >> is NaN.  Rounding and the sign of zero are left     *)
(* out.                                                                    *)
(***************************************************************************)
MaxSide == 5

RECURSIVE GCD(_, _)
GCD(a, b) == IF b = 0 THEN a ELSE GCD(b, a % b)

Norm(n, d) ==
    IF d = 0 THEN << Sign(n), 0 >>
    ELSE LET g == GCD(Abs(n), Abs(d)) IN << (Sign(d) * n) \div g, Abs(d) \div g >>

R(n, d) == Norm(n, d)
Zero == R(0, 1)
One == R(1, 1)
NaN == << 0, 0 >>
PosInf == << 1, 0 >>

IsNaN(x) == x = NaN
IsFinite(x) == x[2] # 0

RMul(x, y) == Norm(x[1] * y[1], x[2] * y[2])
RDiv(x, y) == Norm(x[1] * y[2], x[2] * y[1])
RNeg(x) == << -x[1], x[2] >>
RAdd(x, y) ==
    IF x[2] = 0 /\ y[2] = 0 THEN (IF x = y THEN x ELSE NaN)
    ELSE Norm(x[1] * y[2] + y[1] * x[2], x[2] * y[2])
RSub(x, y) == RAdd(x, RNeg(y))

\* x < y and x > y on floats: false when either is NaN.
RLt(x, y) ==
    /\ ~IsNaN(x) /\ ~IsNaN(y)
    /\ IF x[2] = 0 \/ y[2] = 0
       THEN (IF x[2] = 0 THEN x[1] ELSE 0) < (IF y[2] = 0 THEN y[1] ELSE 0)
       ELSE x[1] * y[2] < y[1] * x[2]
RGt(x, y) == RLt(y, x)

\* ea::min(a, b): b < a ? b : a.
ea_min(a, b) == IF RLt(b, a) THEN b ELSE a

\* Clamp(value, min, max) of the math library.
Clamp(value, min, max) ==
    IF RLt(value, min) THEN min ELSE IF RGt(value, max) THEN max ELSE value

\* The largest k in lo .. hi with k * k <= n.
RECURSIVE ISqrtIn(_, _, _)
ISqrtIn(n, lo, hi) ==
    IF lo >= hi THEN lo
    ELSE LET mid == (lo + hi + 1) \div 2
         IN  IF mid * mid <= n THEN ISqrtIn(n, mid, hi) ELSE ISqrtIn(n, lo, mid - 1)

ISqrt(n) == ISqrtIn(n, 0, IF n < 46340 THEN n ELSE 46340)
IsSquare(n) == ISqrt(n) * ISqrt(n) = n
HasSqrt(x) == IsFinite(x) /\ x[1] >= 0 /\ IsSquare(x[1]) /\ IsSquare(x[2])

\* Sqrt, on the floats whose root is rational.
Sqrt(x) ==
    IF IsNaN(x) \/ RLt(x, Zero) THEN NaN
    ELSE IF x = PosInf THEN PosInf
    ELSE << ISqrt(x[1]), ISqrt(x[2]) >>

(***************************************************************************)
(* Angles.  An angle in degrees is kept as its sine and cosine, which are  *)
(* rational for the angles of the 3-4-5 and 7-24-25 triangles.             *)
(***************************************************************************)
Angle(sn, cn, den) == [ s |-> R(sn, den), c |-> R(cn, den) ]
Straight == Angle(0, -1, 1)

Sin(angle) == angle.s
Cos(angle) == angle.c

\* The angle attributes are floats in degrees.  The sine and cosine of the
\* degrees they take here: the multiples of 90 from -90 to 270, and the
\* angles of the 7-24-25 triangle (73.74 and 106.26 degrees).
AngleTable ==
    { << R(-90, 1), Angle(-1, 0, 1) >>, << R(0, 1), Angle(0, 1, 1) >>,
      << R(7374, 100), Angle(24, 7, 25) >>, << R(90, 1), Angle(1, 0, 1) >>,
      << R(10626, 100), Angle(24, -7, 25) >>, << R(180, 1), Angle(0, -1, 1) >>,
      << R(270, 1), Angle(-1, 0, 1) >> }
FromDegrees(degrees) == (CHOOSE e \in AngleTable : e[1] = degrees)[2]

\* Angle limits in [0, 180], in degrees.
LimitDegrees == { R(0, 1), R(7374, 100), R(90, 1), R(10626, 100), R(180, 1) }
\* Angle limits as an attribute can hold them, in and out of [0, 180].
ConfiguredDegrees == { R(-90, 1), R(0, 1), R(90, 1), R(180, 1), R(270, 1) }

\* a - b, on angles in degrees.
AngleSub(a, b) ==
    [ s |-> RSub(RMul(a.s, b.c), RMul(a.c, b.s)),
      c |-> RAdd(RMul(a.c, b.c), RMul(a.s, b.s)) ]

\* Asin clamps its argument to [-1, 1]; the result is in [-90, 90].
Asin(x) ==
    LET y == Clamp(x, RNeg(One), One)
    IN  [ s |-> y, c |-> Sqrt(RSub(One, RMul(y, y))) ]

\* Acos clamps its argument to [-1, 1]; the result is in [0, 180].
Acos(x) ==
    LET y == Clamp(x, RNeg(One), One)
    IN  [ s |-> Sqrt(RSub(One, RMul(y, y))), c |-> y ]

nullopt == [ has |-> FALSE ]
Some(v) == [ has |-> TRUE, value |-> v ]

\* SolveAmbiguousTriangle without the test for a sine above 1.
SolveAmbiguousTriangle_NoCheck(sideAB, sideBC, angleACB) ==
    Some(Asin(RDiv(RMul(sideBC, Sin(angleACB)), sideAB)))

\* Given two sides and the angle opposite to the first side, the (smallest)
\* angle opposite to the second side.
SolveAmbiguousTriangle(sideAB, sideBC, angleACB) ==
    LET sinAngleBAC == RDiv(RMul(sideBC, Sin(angleACB)), sideAB)
    IN  IF RGt(sinAngleBAC, One) THEN nullopt ELSE Some(Asin(sinAngleBAC))

\* GetTriangleAngle: the angle between the sides AB and BC, opposite to AC.
GetTriangleAngle(sideAB, sideBC, sideAC) ==
    Acos(RDiv(RSub(RAdd(RMul(sideAB, sideAB), RMul(sideBC, sideBC)), RMul(sideAC, sideAC)),
              RMul(RMul(R(2, 1), sideAB), sideBC)))

\* GetMaxDistance with the sign of the cosine term turned.
GetMaxDistance_PlusCos(chain, maxAngle) ==
    LET a == chain.firstLength
        b == chain.secondLength
    IN  Sqrt(RAdd(RAdd(RMul(a, a), RMul(b, b)),
                  RMul(RMul(RMul(R(2, 1), a), b), Cos(maxAngle))))

\* GetMaxDistance: the distance between the ends of the chain bent to maxAngle.
GetMaxDistance(chain, maxAngle) ==
    LET a == chain.firstLength
        b == chain.secondLength
    IN  Sqrt(RSub(RAdd(RMul(a, a), RMul(b, b)),
                  RMul(RMul(RMul(R(2, 1), a), b), Cos(maxAngle))))

GetThighToHeelDistance(thighToToeDistance, toeToHeelDistance, heelAngle, maxDistance) ==
    LET thighAngle == SolveAmbiguousTriangle(thighToToeDistance, toeToHeelDistance,
                                             heelAngle)
    IN  IF ~thighAngle.has
        THEN ea_min(RAdd(thighToToeDistance, toeToHeelDistance), maxDistance)
        ELSE LET toeAngle == AngleSub(AngleSub(Straight, heelAngle), thighAngle.value)
                 distance == RDiv(RMul(thighToToeDistance, Sin(toeAngle)), Sin(heelAngle))
             IN  ea_min(distance, maxDistance)

(***************************************************************************)
(* The calls of GetThighToHeelDistance, on every triangle of the bounds    *)
(* whose angles stay among the angles with rational sine and cosine.       *)
(***************************************************************************)

\* A rig that has not been updated yet.
RigAtRest ==
    /\ scene = RestScene(QuatJ)
    /\ comps = [c \in Comps |-> NewComponent("Identity", NumNodes, << 1 >>)]
    /\ nodeCache = EmptyCache
    /\ host = InitHost
    /\ lastInit = [c \in Comps |-> "none"]
    /\ wrote = {}
    /\ pullScene = NoScene
    /\ pullOffset = Quaternion_ZERO

HeelAngles ==
    { Angle(0, 5, 5), Angle(3, 4, 5), Angle(4, 3, 5), Angle(5, 0, 5),
      Angle(4, -3, 5), Angle(3, -4, 5), Angle(0, -5, 5), Angle(-3, 4, 5) }

Sides == { R(n, 1) : n \in 0 .. MaxSide }
MaxDistances == { R(2 * n, 1) : n \in 0 .. MaxSide }

\* The sine of the thigh angle is above 1, or not a number, or the sine of
\* an angle with a rational cosine.
RationalTriangle(sideAB, sideBC, angleACB) ==
    LET x == RDiv(RMul(sideBC, Sin(angleACB)), sideAB)
        y == Clamp(x, RNeg(One), One)
    IN  IsNaN(x) \/ HasSqrt(RSub(One, RMul(y, y)))

InitTriangle ==
    /\ RigAtRest
    /\ xr = NoXR
    /\ calc \in [ pc : {"call"}, op : {"GetThighToHeelDistance"},
                  thighToToeDistance : Sides, toeToHeelDistance : Sides,
                  heelAngle : HeelAngles, maxDistance : MaxDistances,
                  result : {NaN} ]
    /\ RationalTriangle(calc.thighToToeDistance, calc.toeToHeelDistance, calc.heelAngle)

GetThighToHeelDistanceCall ==
    /\ calc.pc = "call"
    /\ calc.op = "GetThighToHeelDistance"
    /\ calc' = [calc EXCEPT
                  !.pc = "done",
                  !.result = GetThighToHeelDistance(calc.thighToToeDistance,
                                 calc.toeToHeelDistance, calc.heelAngle, calc.maxDistance)]
    /\ UNCHANGED << rigVars, xr >>

NextTriangle == GetThighToHeelDistanceCall

SpecTriangle == InitTriangle /\ [][NextTriangle]_vars

(***************************************************************************)
(* The trigonometric solver.  A position is kept relative to the begin     *)
(* node of the chain, as a direction and a distance; an angle at the       *)
(* middle joint is an angle in [0, 180], ordered by its cosine.            *)
(***************************************************************************)
Directions == {"forward", "up"}

SamePoint(p, q) == p.distance = q.distance /\ (p.distance = Zero \/ p.direction = q.direction)

AngleLt(a, b) == RGt(a.c, b.c)
ClampAngle(value, min, max) ==
    IF AngleLt(value, min) THEN min ELSE IF AngleLt(max, value) THEN max ELSE value

\* The distance between the ends of two segments that meet at the angle.
ReachAt(a, b, angle) ==
    Sqrt(RSub(RAdd(RMul(a, a), RMul(b, b)),
              RMul(R(2, 1), RMul(RMul(a, b), Cos(angle)))))

\* IKTrigonometricChain::Solve: the distance to the target is clamped to the
\* reach the angle limits allow, the angle at the middle joint is solved by
\* the law of cosines and clamped to the limits, and the end node is put at
\* the clamped distance on the ray to the target.
IKTrigonometricChain_Solve(chain, target, bendDirection, minAngle, maxAngle) ==
    LET a == chain.firstLength
        b == chain.secondLength
        len02 == Clamp(target.distance, ReachAt(a, b, minAngle), ReachAt(a, b, maxAngle))
        cosMiddle == RDiv(RSub(RAdd(RMul(a, a), RMul(b, b)), RMul(len02, len02)),
                          RMul(R(2, 1), RMul(a, b)))
    IN  [ endPosition |-> [ direction |-> target.direction, distance |-> len02 ],
          middleAngle |-> ClampAngle(Acos(cosMiddle), minAngle, maxAngle),
          bendDirection |-> bendDirection ]

\* v rotated by the unit quaternion q.
QuatRotate(q, v) ==
    LET r == QuatMul(QuatMul(q, << 0, v[1], v[2], v[3] >>), QuatInverse(q))
    IN  << r[2], r[3], r[4] >>

\* SolveInternal that solves with a maximum angle of 180 whatever is configured.
IKTrigonometrySolver_SolveInternal_NoMaxAngle(c, chain, targetPosition, nodeRotation) ==
    IKTrigonometricChain_Solve(chain, targetPosition,
        QuatRotate(nodeRotation, c.bendDirection_), c.minAngle_, Straight)

\* SolveInternal with the angle limits passed in the wrong order.
IKTrigonometrySolver_SolveInternal_SwappedLimits(c, chain, targetPosition, nodeRotation) ==
    IKTrigonometricChain_Solve(chain, targetPosition,
        QuatRotate(nodeRotation, c.bendDirection_), c.maxAngle_, c.minAngle_)

IKTrigonometrySolver_SolveInternal(c, chain, targetPosition, nodeRotation) ==
    IKTrigonometricChain_Solve(chain, targetPosition,
        QuatRotate(nodeRotation, c.bendDirection_), c.minAngle_, c.maxAngle_)

\* Angle limits in [0, 180]: 0, 73.74, 90, 106.26 and 180 degrees.
LimitAngles ==
    { Angle(0, 25, 25), Angle(24, 7, 25), Angle(25, 0, 25), Angle(24, -7, 25),
      Angle(0, -25, 25) }

Lengths == Sides \ {Zero}
Vector3_FORWARD == << 0, 0, 1 >>

\* The reach at both limits and the sine of the solved angle are rational.
RationalChain(a, b, minAngle, maxAngle, distance) ==
    LET sq(angle) == RSub(RAdd(RMul(a, a), RMul(b, b)),
                          RMul(R(2, 1), RMul(RMul(a, b), Cos(angle))))
    IN  /\ HasSqrt(sq(minAngle))
        /\ HasSqrt(sq(maxAngle))
        /\ LET len02 == Clamp(distance, Sqrt(sq(minAngle)), Sqrt(sq(maxAngle)))
               y == Clamp(RDiv(RSub(RAdd(RMul(a, a), RMul(b, b)), RMul(len02, len02)),
                               RMul(R(2, 1), RMul(a, b))), RNeg(One), One)
           IN  HasSqrt(RSub(One, RMul(y, y)))

InitTrig ==
    /\ RigAtRest
    /\ xr = NoXR
    /\ calc \in [ pc : {"call"}, op : {"IKTrigonometrySolver::SolveInternal"},
                  firstLength : Lengths, secondLength : Lengths,
                  minAngle_ : LimitAngles, maxAngle_ : LimitAngles,
                  bendDirection_ : {Vector3_FORWARD},
                  targetPosition : [ direction : Directions, distance : MaxDistances ],
                  result : {NaN} ]
    /\ RationalChain(calc.firstLength, calc.secondLength, calc.minAngle_, calc.maxAngle_,
                     calc.targetPosition.distance)

TrigonometrySolve ==
    /\ calc.pc = "call"
    /\ calc.op = "IKTrigonometrySolver::SolveInternal"
    /\ calc' = [calc EXCEPT
                  !.pc = "done",
                  !.result = IKTrigonometrySolver_SolveInternal(calc, calc,
                                 calc.targetPosition, scene[node_].rotation)]
    /\ UNCHANGED << rigVars, xr >>

NextTrig == TrigonometrySolve

SpecTrig == InitTrig /\ [][NextTrig]_vars

(***************************************************************************)
(* The Chain (FABRIK) solver, on chains that lie along one axis: a         *)
(* position is an integer coordinate on the axis, a direction is +1 or -1. *)
(* IKChainSolver::SolveInternal hands the target's world position and the  *)
(* settings to IKFabrikChain::Solve, which repeats a backward and a        *)
(* forward pass until the end node is within the tolerance of the target   *)
(* or the iteration cap is reached.                                        *)
(***************************************************************************)
MaxSegments == 2
MaxLength == 2
MaxTarget == 3
MaxIterations == 3

\* The direction of v; of the zero vector, any direction d.
Dir(v, d) == IF v > 0 THEN 1 ELSE IF v < 0 THEN -1 ELSE d

\* The backward pass: the end node moves onto the target, every preceding
\* node to the rest length from its new neighbour, on the side it is on
\* (on the side d when it is at the neighbour's place).
FabrikBackward(positions, lengths, target, d) ==
    LET n == Len(positions)
        q[i \in 1 .. n] ==
            IF i = n THEN target
            ELSE q[i + 1] + lengths[i] * Dir(positions[i] - q[i + 1], d)
    IN  [i \in 1 .. n |-> q[i]]

\* A forward pass that leaves the root where the backward pass put it.
FabrikForward_NoAnchor(positions, lengths, root, d) ==
    LET n == Len(positions)
        r[i \in 1 .. n] ==
            IF i = 1 THEN positions[1]
            ELSE r[i - 1] + lengths[i - 1] * Dir(positions[i] - r[i - 1], d)
    IN  [i \in 1 .. n |-> r[i]]

\* The forward pass: the root moves back to its original position, every
\* following node to the rest length from its new neighbour.
FabrikForward(positions, lengths, root, d) ==
    LET n == Len(positions)
        r[i \in 1 .. n] ==
            IF i = 1 THEN root
            ELSE r[i - 1] + lengths[i - 1] * Dir(positions[i] - r[i - 1], d)
    IN  [i \in 1 .. n |-> r[i]]

\* The end node is within the tolerance of the target.
FabrikConverged(positions, target, tolerance) ==
    Abs(positions[Len(positions)] - target) <= tolerance

\* A loop that goes on until the end node is at the target.
FabrikContinues_NoCap(iteration, maxIterations, converged) == ~converged

\* The loop goes on while the cap is not reached and the chain has not converged.
FabrikContinues(iteration, maxIterations, converged) ==
    iteration < maxIterations /\ ~converged

\* IKFabrikChain::Solve, up to its loop.
IKFabrikChain_Solve(c, target, settings) ==
    [c EXCEPT !.pc = IF FabrikContinues(0, settings.maxIterations_, FALSE)
                     THEN "loop" ELSE "done",
              !.target = target,
              !.root = c.positions[1],
              !.maxIterations = settings.maxIterations_,
              !.tolerance = settings.tolerance_,
              !.iteration = 0]

\* SolveInternal that solves towards the first bone instead of the target.
IKChainSolver_SolveInternal_FirstBoneAsTarget(c, settings) ==
    IKFabrikChain_Solve(c, c.positions[1], settings)

\* IKChainSolver::SolveInternal.
IKChainSolver_SolveInternal(c, settings) ==
    IKFabrikChain_Solve(c, c.targetWorldPosition, settings)

\* Chains of rest lengths 1..MaxLength, straight or folded at any joint.
FabrikLengths == UNION { [1 .. k -> 1 .. MaxLength] : k \in 0 .. MaxSegments }

FabrikShape(lengths, dirs) ==
    LET p[i \in 1 .. Len(lengths) + 1] ==
            IF i = 1 THEN 0 ELSE p[i - 1] + lengths[i - 1] * dirs[i - 1]
    IN  [i \in 1 .. Len(lengths) + 1 |-> p[i]]

InitFabrik ==
    /\ RigAtRest
    /\ xr = NoXR
    /\ \E lengths \in FabrikLengths :
       \E dirs \in [1 .. Len(lengths) -> {-1, 1}] :
       \E t \in -MaxTarget .. MaxTarget, tol \in 0 .. 1, cap \in 1 .. MaxIterations :
          calc = [ pc |-> "call", op |-> "IKChainSolver::SolveInternal",
                   lengths |-> lengths, positions |-> FabrikShape(lengths, dirs),
                   targetWorldPosition |-> t,
                   settings |-> [ maxIterations_ |-> cap, tolerance_ |-> tol ],
                   target |-> 0, root |-> 0, maxIterations |-> 0, tolerance |-> 0,
                   iteration |-> 0, initial |-> FabrikShape(lengths, dirs) ]

ChainSolveBegin ==
    /\ calc.pc = "call"
    /\ calc.op = "IKChainSolver::SolveInternal"
    /\ calc' = IKChainSolver_SolveInternal(calc, calc.settings)
    /\ UNCHANGED << rigVars, xr >>

\* One iteration of the loop of IKFabrikChain::Solve.
FabrikPass ==
    /\ calc.pc = "loop"
    /\ \E d, e \in {-1, 1} :
          LET back == FabrikBackward(calc.positions, calc.lengths, calc.target, d)
              forth == FabrikForward(back, calc.lengths, calc.root, e)
              iteration == calc.iteration + 1
          IN  calc' = [calc EXCEPT
                         !.positions = forth,
                         !.iteration = iteration,
                         !.pc = IF FabrikContinues(iteration, calc.maxIterations,
                                       FabrikConverged(forth, calc.target, calc.tolerance))
                                THEN "loop" ELSE "done"]
    /\ UNCHANGED << rigVars, xr >>

NextFabrik == ChainSolveBegin \/ FabrikPass

\* A call that has begun runs on: nothing suspends a solve.
SpecFabrik == InitFabrik /\ [][NextFabrik]_vars /\ WF_vars(NextFabrik)

(***************************************************************************)
(* The Leg solver.  The claims about it are about distances, so a vector   *)
(* is kept as its length: a float that is zero for the zero vector and not *)
(* a number for a vector with a component that is not a number.            *)
(***************************************************************************)
\* The length of v.Normalized(): a vector of length zero stays as it is.
Vector3_Normalized(v) ==
    IF IsNaN(v) \/ ~IsFinite(v) THEN NaN ELSE IF v = Zero THEN Zero ELSE One

\* The length of Quaternion{angle, axis} * v.
Quaternion_Rotate(angle, v) ==
    IF IsNaN(Sin(angle)) \/ IsNaN(Cos(angle)) THEN NaN ELSE v

\* The length of Quaternion::IDENTITY.Slerp(Quaternion{from, to}, t) * from.
InterpolateDirection(from, to, t) ==
    IF IsNaN(from) \/ IsNaN(to) \/ IsNaN(t) THEN NaN ELSE from

\* GetToeToHeel, of a toe at thighToToeDistance from the thigh.
GetToeToHeel(thighToToeDistance, toeToHeelDistance, heelAngle, maxDistance) ==
    LET thighToHeelDistance == GetThighToHeelDistance(thighToToeDistance,
                                   toeToHeelDistance, heelAngle, maxDistance)
        toeAngle == GetTriangleAngle(thighToToeDistance, toeToHeelDistance,
                                     thighToHeelDistance)
        toeToThigh == Vector3_Normalized(thighToToeDistance)
    IN  RMul(Vector3_Normalized(Quaternion_Rotate(toeAngle, toeToThigh)), toeToHeelDistance)

\* UpdateMinHeelAngle: the signed angle at the heel in the scene.
IKLegSolver_UpdateMinHeelAngle(c) == [c EXCEPT !.minHeelAngle_ = c.sceneHeelAngle]

IKLegSolver_EnsureInitialized(c) ==
    LET updated == IF RLt(Sin(c.minHeelAngle_), Zero)
                   THEN IKLegSolver_UpdateMinHeelAngle(c) ELSE c
    IN  [updated EXCEPT
           !.bendWeight_ = Clamp(@, Zero, One),
           !.minKneeAngle_ = Clamp(@, R(0, 1), R(180, 1)),
           !.maxKneeAngle_ = Clamp(@, R(0, 1), R(180, 1))]

IKLegSolver_CalculateFootDirectionStraight(c, thighToToeDistance) ==
    GetToeToHeel(thighToToeDistance, c.footLength, c.minHeelAngle_,
                 GetMaxDistance(c, FromDegrees(c.maxKneeAngle_)))

\* The two-point trigonometric solve puts newPos2 at the second length
\* from newPos1.
IKLegSolver_CalculateFootDirectionBent(c) ==
    RMul(Vector3_Normalized(RAdd(c.secondLength, c.footLength)), c.footLength)

\* IKLegSolver::SolveInternal: the toe is put at the heel minus the blended
\* offset, so the distance from heel to toe is the length of the offset.
IKLegSolver_SolveInternal(c0, thighToToeDistance) ==
    LET c == IKLegSolver_EnsureInitialized(c0)
        toeToHeel0 == IKLegSolver_CalculateFootDirectionStraight(c, thighToToeDistance)
        toeToHeel1 == IKLegSolver_CalculateFootDirectionBent(c)
        toeToHeel == InterpolateDirection(toeToHeel0, toeToHeel1, c.bendWeight_)
        thighToHeelDistance == GetThighToHeelDistance(thighToToeDistance, c.footLength,
                                   c.minHeelAngle_, GetMaxDistance(c, FromDegrees(c.maxKneeAngle_)))
    IN  [ solver |-> c,
          maxDistance |-> GetMaxDistance(c, FromDegrees(c.maxKneeAngle_)),
          thighToHeelDistance |-> thighToHeelDistance,
          toeAngle |-> GetTriangleAngle(thighToToeDistance, c.footLength,
                                        thighToHeelDistance),
          toeToHeel0 |-> toeToHeel0,
          toeToHeel1 |-> toeToHeel1,
          toeToHeel |-> toeToHeel,
          heelToToeDistance |-> toeToHeel,
          legChain_Solve |-> [ minAngle |-> c.minKneeAngle_,
                               maxAngle |-> c.maxKneeAngle_ ] ]

BendWeights == { R(-1, 1), Zero, R(1, 2), One, R(2, 1) }
MaxFoot == 2
FootLengths == { R(n, 1) : n \in 0 .. MaxFoot }

\* Every square root and every sine of the solve is rational.
RationalLeg(c, thighToToeDistance) ==
    LET heelAngle == IKLegSolver_EnsureInitialized(c).minHeelAngle_
        maxKneeAngle == IKLegSolver_EnsureInitialized(c).maxKneeAngle_
        maxSquared == RSub(RAdd(RMul(c.firstLength, c.firstLength),
                                RMul(c.secondLength, c.secondLength)),
                           RMul(RMul(RMul(R(2, 1), c.firstLength), c.secondLength),
                                Cos(FromDegrees(maxKneeAngle))))
    IN  /\ HasSqrt(maxSquared)
        /\ RationalTriangle(thighToToeDistance, c.footLength, heelAngle)
        /\ LET thighToHeel == GetThighToHeelDistance(thighToToeDistance, c.footLength,
                                  heelAngle, Sqrt(maxSquared))
               x == RDiv(RSub(RAdd(RMul(thighToToeDistance, thighToToeDistance),
                                   RMul(c.footLength, c.footLength)),
                              RMul(thighToHeel, thighToHeel)),
                         RMul(RMul(R(2, 1), thighToToeDistance), c.footLength))
               y == Clamp(x, RNeg(One), One)
           IN  IsNaN(x) \/ HasSqrt(RSub(One, RMul(y, y)))

InitLeg ==
    /\ RigAtRest
    /\ xr = NoXR
    /\ \E first \in Lengths, second \in Lengths, foot \in FootLengths,
          heel \in HeelAngles, knee \in LimitDegrees,
          weight \in BendWeights, distance \in Sides :
       \E measured \in IF RLt(Sin(heel), Zero) THEN HeelAngles ELSE {heel} :
          /\ calc = [ pc |-> "call", op |-> "IKLegSolver::SolveInternal",
                      firstLength |-> first, secondLength |-> second,
                      footLength |-> foot,
                      minKneeAngle_ |-> R(0, 1), maxKneeAngle_ |-> knee,
                      bendWeight_ |-> weight, minHeelAngle_ |-> heel,
                      sceneHeelAngle |-> measured,
                      thighToToeDistance |-> distance, result |-> NaN ]
          /\ RationalLeg(calc, distance)

LegSolve ==
    /\ calc.pc = "call"
    /\ calc.op = "IKLegSolver::SolveInternal"
    /\ calc' = [calc EXCEPT
                  !.pc = "done",
                  !.result = IKLegSolver_SolveInternal(calc, calc.thighToToeDistance)]
    /\ UNCHANGED << rigVars, xr >>

NextLeg == LegSolve

SpecLeg == InitLeg /\ [][NextLeg]_vars

(***************************************************************************)
(* The Arm solver's shoulder, in the plane through the shoulder joint, the *)
(* arm bone and the target.  The plane has Turn unit directions, 360 /     *)
(* Turn degrees apart; a vector of the plane is an integer combination of  *)
(* them, kept as the function from the directions to the coefficients.  A  *)
(* rotation in the plane is a signed number of steps and is all swing,     *)
(* weighted by the swing weight shoulderWeight_.y_.                        *)
(***************************************************************************)
Turn == 32
ArmStep == 4
Steps == 0 .. Turn - 1
ArmDirections == { ArmStep * k : k \in 0 .. (Turn \div ArmStep) - 1 }
UnitWeights == { Zero, R(1, 2), One }

Vector2_ZERO == << Zero, Zero >>
Vector2_ONE == << One, One >>
VectorClamp(value, min, max) ==
    << Clamp(value[1], min[1], max[1]), Clamp(value[2], min[2], max[2]) >>

Vector3_ZERO == [k \in Steps |-> 0]
\* The vector of the given length along a unit direction.
Vector3_Along(direction, length) == [k \in Steps |-> IF k = direction THEN length ELSE 0]
Vector3_Add(v, w) == [k \in Steps |-> v[k] + w[k]]
Vector3_Sub(v, w) == [k \in Steps |-> v[k] - w[k]]
\* rotation * v: every unit direction moves on by the steps of the rotation.
Quaternion_Mul_Vector3(rotation, v) == [k \in Steps |-> v[(k - rotation + 2 * Turn) % Turn]]
\* The unit direction a vector lies along.
Vector3_Direction(v) == CHOOSE k \in Steps : v[k] > 0

RECURSIVE DotShifted(_, _, _)
DotShifted(v, d, k) ==
    IF k < 0 THEN 0 ELSE v[k] * v[(k + d) % Turn] + DotShifted(v, d, k - 1)
\* v.LengthSquared(), as the combination of the cosines of the steps: the
\* coefficient of cos(d * 360 / Turn) is the sum of v[k] * v[k + d].
Vector3_LengthSquared(v) == [d \in Steps |-> DotShifted(v, d, Turn - 1)]

\* Quaternion{from, to}: the shortest rotation that takes from to to.
RotationFromTo(from, to) ==
    LET d == (to - from + 2 * Turn) % Turn
    IN  IF d > Turn \div 2 THEN d - Turn ELSE d

\* Quaternion::IDENTITY.Slerp(rotation, t).
SlerpFromIdentity(rotation, t) == (rotation * t[1]) \div t[2]

\* IKNode::ResetOriginalTransform.
IKNode_ResetOriginalTransform(n) ==
    [n EXCEPT !.position_ = n.originalPosition_, !.rotation_ = n.originalRotation_]

\* IKNode::RotateAround: the node turns about the point, with its offset
\* from the point and its own rotation.
IKNode_RotateAround(n, point, rotation) ==
    [n EXCEPT !.position_ = Vector3_Add(Quaternion_Mul_Vector3(rotation,
                                            Vector3_Sub(@, point)), point),
              !.rotation_ = (rotation + @ + Turn) % Turn]

IKArmSolver_EnsureInitialized(c) ==
    [c EXCEPT !.minElbowAngle_ = Clamp(@, R(0, 1), R(180, 1)),
              !.maxElbowAngle_ = Clamp(@, R(0, 1), R(180, 1)),
              !.shoulderWeight_ = VectorClamp(@, Vector2_ZERO, Vector2_ONE)]

\* CalculateMaxShoulderRotation: from the shoulder segment as the nodes
\* hold it (endNode_->position_ - beginNode_->position_) to the direction
\* of the hand target from the shoulder.
IKArmSolver_CalculateMaxShoulderRotation(c, handTarget) ==
    LET originalShoulderToArm == Vector3_Sub(c.shoulderSegment_.endNode_.position_,
                                             c.shoulderSegment_.beginNode_.position_)
    IN  RotationFromTo(Vector3_Direction(originalShoulderToArm), handTarget)

\* RotateShoulder without the reset of the two nodes to their original
\* transform.
IKArmSolver_RotateShoulder_NoReset(segment, rotation) ==
    LET shoulderPosition == segment.beginNode_.position_
    IN  [segment EXCEPT
           !.beginNode_ = IKNode_RotateAround(@, shoulderPosition, rotation),
           !.endNode_ = IKNode_RotateAround(@, shoulderPosition, rotation)]

\* RotateShoulder: the two nodes are reset to their original transform,
\* moved by the offset of the shoulder from its original position, and
\* rotated around the shoulder joint.
IKArmSolver_RotateShoulder(segment, rotation) ==
    LET shoulderPosition == segment.beginNode_.position_
        shoulderOffset == Vector3_Sub(shoulderPosition, segment.beginNode_.originalPosition_)
        begin == IKNode_ResetOriginalTransform(segment.beginNode_)
        end == IKNode_ResetOriginalTransform(segment.endNode_)
        movedBegin == [begin EXCEPT !.position_ = Vector3_Add(@, shoulderOffset)]
        movedEnd == [end EXCEPT !.position_ = Vector3_Add(@, shoulderOffset)]
    IN  [segment EXCEPT
           !.beginNode_ = IKNode_RotateAround(movedBegin, shoulderPosition, rotation),
           !.endNode_ = IKNode_RotateAround(movedEnd, shoulderPosition, rotation)]

\* IKArmSolver::SolveInternal, as far as the shoulder segment goes; of the
\* solve of the arm chain, which leaves its begin node (the end node of the
\* shoulder segment) in place, the angle limits it is called with are kept.
IKArmSolver_SolveInternal(c0, handTarget) ==
    LET c == IKArmSolver_EnsureInitialized(c0)
        maxShoulderRotation == IKArmSolver_CalculateMaxShoulderRotation(c, handTarget)
        swing == maxShoulderRotation
        twist == 0
        shoulderRotation == SlerpFromIdentity(swing, c.shoulderWeight_[2])
                               + SlerpFromIdentity(twist, c.shoulderWeight_[1])
    IN  [c EXCEPT
           !.shoulderRotation = shoulderRotation,
           !.shoulderSegment_ = IKArmSolver_RotateShoulder(@, shoulderRotation),
           !.armChain_Solve = [ minAngle |-> c.minElbowAngle_,
                                maxAngle |-> c.maxElbowAngle_ ]]

\* An arm solver initialized on a shoulder at the origin with the arm bone
\* at restLength along the direction original, in a scene where the shoulder
\* is at offset and the arm bone at restLength along posed from it.
ArmSolver(original, restLength, offset, posed, target, weight, minAngle, maxAngle) ==
    [ pc |-> "call", op |-> "IKArmSolver::Solve", solves |-> 0,
      shoulderSegment_ |->
         [ beginNode_ |-> [ position_ |-> Vector3_ZERO, rotation_ |-> 0,
                            originalPosition_ |-> Vector3_ZERO,
                            originalRotation_ |-> 0 ],
           endNode_ |-> [ position_ |-> Vector3_Along(original, restLength),
                          rotation_ |-> 0,
                          originalPosition_ |-> Vector3_Along(original, restLength),
                          originalRotation_ |-> 0 ],
           length_ |-> restLength ],
      shoulderWeight_ |-> weight,
      minElbowAngle_ |-> minAngle, maxElbowAngle_ |-> maxAngle,
      handTarget |-> target,
      scene |-> [ shoulder |-> [ position |-> offset, rotation |-> 0 ],
                  arm |-> [ position |-> Vector3_Add(offset,
                                             Vector3_Along(posed, restLength)),
                            rotation |-> 0 ] ],
      pulled |-> [ shoulder |-> [ position |-> offset, rotation |-> 0 ],
                   arm |-> [ position |-> Vector3_Add(offset,
                                              Vector3_Along(posed, restLength)),
                             rotation |-> 0 ] ],
      first |-> [ shoulder |-> [ position |-> offset, rotation |-> 0 ],
                  arm |-> [ position |-> Vector3_Add(offset,
                                             Vector3_Along(posed, restLength)),
                            rotation |-> 0 ] ],
      shoulderRotation |-> 0,
      armChain_Solve |-> [ minAngle |-> NaN, maxAngle |-> NaN ] ]

MaxOffset == 1
MaxShoulder == 2

InitArm ==
    /\ RigAtRest
    /\ xr = NoXR
    /\ \E original \in ArmDirections, posed \in ArmDirections,
          target \in ArmDirections, offset \in 0 .. MaxOffset, twistWeight \in {Zero, One},
          swingWeight \in UnitWeights :
          calc = ArmSolver(original, MaxShoulder, Vector3_Along(0, offset), posed,
                           target, << twistWeight, swingWeight >>,
                           R(0, 1), R(180, 1))

\* IKSolverComponent::Solve of an Arm solver: the nodes take the scene's
\* transforms, SolveInternal poses them, and they are written back.
ArmSolve ==
    /\ calc.pc = "call"
    /\ calc.op = "IKArmSolver::Solve"
    /\ LET pulled == [calc EXCEPT
                        !.shoulderSegment_.beginNode_.position_ = calc.scene.shoulder.position,
                        !.shoulderSegment_.beginNode_.rotation_ = calc.scene.shoulder.rotation,
                        !.shoulderSegment_.endNode_.position_ = calc.scene.arm.position,
                        !.shoulderSegment_.endNode_.rotation_ = calc.scene.arm.rotation]
           solved == IKArmSolver_SolveInternal(pulled, calc.handTarget)
           written == [ shoulder |-> [ position |-> solved.shoulderSegment_.beginNode_.position_,
                                       rotation |-> solved.shoulderSegment_.beginNode_.rotation_ ],
                        arm |-> [ position |-> solved.shoulderSegment_.endNode_.position_,
                                  rotation |-> solved.shoulderSegment_.endNode_.rotation_ ] ]
       IN  calc' = [solved EXCEPT
                      !.pulled = calc.scene,
                      !.scene = written,
                      !.solves = @ + 1,
                      !.first = IF calc.solves = 0 THEN written ELSE @,
                      !.pc = IF calc.solves = 1 THEN "done" ELSE "call"]
    /\ UNCHANGED << rigVars, xr >>

NextArm == ArmSolve

SpecArm == InitArm /\ [][NextArm]_vars

(***************************************************************************)
(* The angle limits and weights of the Leg and Arm solvers, over values in *)
(* and out of their ranges, on a leg of segments 3 and 4 with a foot of 1  *)
(* and on an arm at rest.                                                  *)
(***************************************************************************)
InitLimits ==
    /\ RigAtRest
    /\ xr = NoXR
    /\ \/ \E minAngle \in ConfiguredDegrees, maxAngle \in ConfiguredDegrees,
             weight \in BendWeights, distance \in Sides :
             /\ calc = [ pc |-> "call", op |-> "IKLegSolver::SolveInternal",
                         firstLength |-> R(3, 1), secondLength |-> R(4, 1),
                         footLength |-> One,
                         minKneeAngle_ |-> minAngle, maxKneeAngle_ |-> maxAngle,
                         bendWeight_ |-> weight, minHeelAngle_ |-> Angle(1, 0, 1),
                         sceneHeelAngle |-> Angle(1, 0, 1),
                         thighToToeDistance |-> distance, result |-> NaN ]
             /\ RationalLeg(calc, distance)
       \/ \E minAngle \in ConfiguredDegrees, maxAngle \in ConfiguredDegrees,
             twistWeight \in BendWeights, swingWeight \in BendWeights,
             target \in {0, 2 * ArmStep} :
             calc = ArmSolver(0, 1, Vector3_ZERO, 0, target,
                              << twistWeight, swingWeight >>, minAngle, maxAngle)

NextLimits == LegSolve \/ ArmSolve

SpecLimits == InitLimits /\ [][NextLimits]_vars

(***************************************************************************)
(* The OpenXR subsystem (Source/Urho3D/XR/XR.cpp).  The OpenXR runtime is  *)
(* an external collaborator: what it answers (events, results of create,   *)
(* begin, acquire and locate calls) is an input of the handlers, and what  *)
(* it is asked is kept per handler in calls.  runtime is the state the     *)
(* runtime keeps for the session: whether a frame is begun and not ended,  *)
(* and whether an image of each swap chain is acquired and not released.   *)
(* faults are the calls of the last handler the runtime rejects as out of  *)
(* order.  The engine sends E_BEGINFRAME and E_ENDRENDERING in turn; pc is *)
(* the one that is due.                                                    *)
(***************************************************************************)
MaxEvents == 2

MaxSets == 2

nullActionGroup == [ null |-> TRUE, name |-> "", bindings |-> << >> ]

nullManifest == [ null |-> TRUE, actionsets |-> << >> ]

IsLive(x) == x.sessionLive_

Call(x, name) == [x EXCEPT !.calls = Append(@, name)]

Fault(x, name) == [x EXCEPT !.faults = @ \cup {name}]

NoFrame == [ frame |-> FALSE, color |-> FALSE, depth |-> FALSE ]

xrBeginFrame(x) ==
    LET y == Call(x, "xrBeginFrame")
    IN  IF x.runtime.frame
        THEN Fault(y, "xrBeginFrame: the frame begun before was not ended")
        ELSE [y EXCEPT !.runtime.frame = TRUE]

xrEndFrame(x) ==
    LET y == Call(x, "xrEndFrame")
    IN  IF x.runtime.frame
        THEN [y EXCEPT !.runtime.frame = FALSE]
        ELSE Fault(y, "xrEndFrame: no frame was begun")

xrAcquireSwapchainImage(x, chain, success) ==
    LET y == Call(x, "xrAcquireSwapchainImage")
    IN  IF ~success THEN y
        ELSE IF x.runtime[chain]
        THEN Fault(y, "xrAcquireSwapchainImage: the image acquired before was not released")
        ELSE [y EXCEPT !.runtime[chain] = TRUE]

xrReleaseSwapchainImage(x, chain) ==
    LET y == Call(x, "xrReleaseSwapchainImage")
    IN  IF x.runtime[chain]
        THEN [y EXCEPT !.runtime[chain] = FALSE]
        ELSE Fault(y, "xrReleaseSwapchainImage: no image was acquired")

(***************************************************************************)
(* Action sets.  An actionset element of the manifest has a name and the   *)
(* types of its actions; an action group has the name and the bindings     *)
(* made for the actions.  actionSets_ is a map from names to groups, kept  *)
(* as the set of its entries.                                              *)
(***************************************************************************)
ParseBindingType(typeName) == typeName \in {"boolean", "pose"}

\* created: "ok", or the runtime call that fails.
CreateBinding(typeName, created) ==
    IF ~ParseBindingType(typeName) THEN << >>
    ELSE IF created = "xrCreateAction" THEN << >>
    ELSE << typeName >>

RECURSIVE CreateBindings(_, _, _)
CreateBindings(group, actions, created) ==
    IF actions = << >> THEN group
    ELSE LET binding == CreateBinding(Head(actions), created)
         IN  IF binding = << >> THEN nullActionGroup
             ELSE CreateBindings([group EXCEPT !.bindings = @ \o binding],
                                 Tail(actions), created)

CreateActionGroup(element, created) ==
    IF created = "xrCreateActionSet" THEN nullActionGroup
    ELSE CreateBindings([ null |-> FALSE, name |-> element.name, bindings |-> << >> ],
                        element.actions, created)

MapInsert(map, key, value) ==
    IF \E e \in map : e.key = key THEN map
    ELSE map \cup {[ key |-> key, value |-> value ]}

MapFind(map, key) ==
    IF \E e \in map : e.key = key
    THEN (CHOOSE e \in map : e.key = key).value
    ELSE nullActionGroup

OpenXR_UpdateBindingBound(x) ==
    IF ~x.session_ THEN x
    ELSE IF ~x.activeActionSet_.null
              /\ \E i \in DOMAIN x.activeActionSet_.bindings :
                     x.activeActionSet_.bindings[i] = "pose"
    THEN [x EXCEPT !.handGrips_ = << TRUE, TRUE >>]
    ELSE x

\* Reading the name through a null group is undefined: the process stops
\* there, or the read returns and the null group is stored under what was
\* read.
BindActions_Insert(x, actionGroup, ub) ==
    IF actionGroup.null
    THEN IF ub = "crash"
         THEN [x EXCEPT !.pc = "crashed"]
         ELSE [x EXCEPT !.actionSets_ = MapInsert(@, "", actionGroup)]
    ELSE [x EXCEPT !.actionSets_ = MapInsert(@, actionGroup.name, actionGroup)]

RECURSIVE BindActions_Loop(_, _, _, _)
BindActions_Loop(x, elements, created, ub) ==
    IF elements = << >> \/ x.pc = "crashed" THEN x
    ELSE BindActions_Loop(
             BindActions_Insert(x, CreateActionGroup(Head(elements), Head(created)), ub),
             Tail(elements), Tail(created), ub)

OpenXR_BindActions(x, xmlFile, created, ub) ==
    LET y == BindActions_Loop(x, xmlFile.actionsets, created, ub)
    IN  IF y.pc = "crashed" THEN y ELSE OpenXR_UpdateBindingBound(y)

OpenXR_SetCurrentActionSet(x, set) ==
    IF x.session_ /\ ~set.null
    THEN OpenXR_UpdateBindingBound([x EXCEPT !.activeActionSet_ = set])
    ELSE x

VRInterface_SetCurrentActionSet(x, setName) ==
    IF \E e \in x.actionSets_ : e.key = setName
    THEN OpenXR_SetCurrentActionSet(x, MapFind(x.actionSets_, setName))
    ELSE x

(***************************************************************************)
(* The session.                                                            *)
(***************************************************************************)
\* The runtime drops its frame and its images with the session.  What the
\* base class does in its own ShutdownSession is not among the fields kept
\* here.
OpenXR_ShutdownSession(x) ==
    [x EXCEPT !.handGrips_ = << FALSE, FALSE >>,
              !.views_ = FALSE,
              !.manifest_ = nullManifest,
              !.actionSets_ = {},
              !.activeActionSet_ = nullActionGroup,
              !.sessionLive_ = FALSE,
              !.swapChain_ = FALSE,
              !.depthChain_ = FALSE,
              !.headSpace_ = FALSE,
              !.viewSpace_ = FALSE,
              !.session_ = FALSE,
              !.runtime = NoFrame]

\* failed: "none", or the create call of the runtime that fails; depth:
\* whether a depth swap chain is wanted and made.  Returns [ok, xr, at]: the
\* result, the subsystem, and the step at which the opening stopped.
OpenXR_OpenSession(x0, failed, depth, created, ub) ==
    LET x1 == [x0 EXCEPT !.session_ = x0.instance_ /\ failed # "session",
                         !.runtime = NoFrame]
        x2 == [x1 EXCEPT !.headSpace_ = failed # "headSpace",
                         !.viewSpace_ = failed # "viewSpace"]
        x3 == IF ~x2.manifest_.null
              THEN OpenXR_BindActions(x2, x2.manifest_, created, ub)
              ELSE x2
        x4 == VRInterface_SetCurrentActionSet(x3, "default")
        x5 == [x4 EXCEPT !.swapChain_ = failed # "swapChain"]
        x6 == IF depth THEN [x5 EXCEPT !.depthChain_ = TRUE] ELSE x5
    IN  IF ~x1.session_ THEN [ ok |-> FALSE, xr |-> x1, at |-> "session" ]
        ELSE IF ~x2.headSpace_ \/ ~x2.viewSpace_
        THEN [ ok |-> FALSE, xr |-> x2, at |-> "spaces" ]
        ELSE IF x3.pc = "crashed" THEN [ ok |-> FALSE, xr |-> x3, at |-> "BindActions" ]
        ELSE IF ~x5.swapChain_ THEN [ ok |-> FALSE, xr |-> x5, at |-> "swapChain" ]
        ELSE [ ok |-> TRUE, xr |-> x6, at |-> "" ]

\* What the last operation was and what it returned.
Returned(x, op, value) == [x EXCEPT !.returned = [ op |-> op, value |-> value ]]

InitializeSession_KeepFailed(x) == x

InitializeSession_Failed(x) == OpenXR_ShutdownSession(x)

OpenXR_InitializeSession(x0, manifest, failed, depth, created, ub) ==
    LET x1 == [x0 EXCEPT !.manifest_ = manifest,
                         !.calls = << >>, !.faults = {}, !.polled = << >>]
        open == OpenXR_OpenSession(x1, failed, depth, created, ub)
    IN  IF x1.manifest_.null
        THEN Returned(x1, "InitializeSession", "false: no manifest")
        ELSE IF open.xr.pc = "crashed"
        THEN Returned(open.xr, "InitializeSession", "none: the process stopped")
        ELSE IF ~open.ok
        THEN Returned(InitializeSession_Failed(open.xr), "InitializeSession",
                      "false: " \o open.at)
        ELSE Returned([open.xr EXCEPT !.rig_ = TRUE], "InitializeSession", "true")

(***************************************************************************)
(* The hands of the rig.  The transform of a hand node is its position and *)
(* its rotation in the rig; the rig node stands at rigPosition.            *)
(***************************************************************************)
Node_GetTransformMatrix(node) == << node.position, node.rotation >>

Node_GetWorldTransform(x, node) == << x.rigPosition + node.position, node.rotation >>

Node_SetVar(node, key, value) == [node EXCEPT !.vars[key] = value]

UpdateHand(x, node, from, pose) ==
    LET n1 == Node_SetVar(node, "PreviousTransformLocal", Node_GetTransformMatrix(from))
        n2 == Node_SetVar(n1, "PreviousTransformWorld", Node_GetWorldTransform(x, from))
        n3 == [n2 EXCEPT !.enabled = pose.positionValid, !.position = pose.position]
    IN  IF pose.orientationValid THEN [n3 EXCEPT !.rotation = pose.orientation] ELSE n3

OpenXR_UpdateHands(x, poses) ==
    IF ~IsLive(x) \/ ~x.rig_ THEN x
    ELSE IF x.handGrips_[1] /\ x.handGrips_[2]
    THEN LET leftHand == UpdateHand(x, x.hands.left, x.hands.left, poses.left)
             rightHand == UpdateHand(x, x.hands.right, leftHand, poses.right)
         IN  Call([x EXCEPT !.hands = [ left |-> leftHand, right |-> rightHand ]],
                  "UpdateHands")
    ELSE x

(***************************************************************************)
(* The frame.                                                              *)
(***************************************************************************)
SessionStates ==
    { "IDLE", "READY", "SYNCHRONIZED", "VISIBLE", "FOCUSED", "STOPPING",
      "LOSS_PENDING", "EXITING" }

\* An event of xrPollEvent; beginSession is what xrBeginSession answers
\* when the event is handled.
Events ==
    { [ type |-> t, state |-> "", beginSession |-> TRUE ] :
          t \in { "VISIBILITY_MASK_CHANGED", "INSTANCE_LOSS_PENDING",
                  "INTERACTION_PROFILE_CHANGED" } }
    \cup { [ type |-> "SESSION_STATE_CHANGED", state |-> s, beginSession |-> TRUE ] :
               s \in SessionStates }
    \cup { [ type |-> "SESSION_STATE_CHANGED", state |-> "READY", beginSession |-> FALSE ] }

EventQueues == UNION { [1..n -> Events] : n \in 0..MaxEvents }

HandleEvent_IdleIgnored(x, e) ==
    IF e.type = "SESSION_STATE_CHANGED" /\ e.state = "FOCUSED"
    THEN [x EXCEPT !.sessionLive_ = TRUE]
    ELSE x

OpenXR_HandleEvent(x, e) ==
    CASE e.type = "INSTANCE_LOSS_PENDING" -> [x EXCEPT !.sessionLive_ = FALSE]
      [] e.type = "INTERACTION_PROFILE_CHANGED" -> OpenXR_UpdateBindingBound(x)
      [] e.type = "SESSION_STATE_CHANGED" ->
            CASE e.state = "READY" ->
                    [Call(x, "xrBeginSession") EXCEPT !.sessionLive_ = e.beginSession]
              [] e.state = "IDLE" -> [x EXCEPT !.sessionLive_ = FALSE]
              [] e.state = "FOCUSED" -> [x EXCEPT !.sessionLive_ = TRUE]
              [] e.state = "STOPPING" ->
                    [Call(x, "xrEndSession") EXCEPT !.sessionLive_ = FALSE]
              [] e.state \in { "EXITING", "LOSS_PENDING" } ->
                    [x EXCEPT !.sessionLive_ = FALSE]
              [] OTHER -> x
      [] OTHER -> x

RECURSIVE PollEvents(_, _)
PollEvents(x, events) ==
    IF events = << >> THEN x
    ELSE PollEvents(OpenXR_HandleEvent(x, Head(events)), Tail(events))

OpenXR_HandlePreRender(x, colorAcquired, depthAcquired) ==
    IF ~IsLive(x) THEN x
    ELSE LET x1 == xrAcquireSwapchainImage(x, "color", colorAcquired)
         IN  IF ~colorAcquired THEN x1
             ELSE IF x1.depthChain_
             THEN xrAcquireSwapchainImage(x1, "depth", depthAcquired)
             ELSE x1

OpenXR_UpdateBindings(x) ==
    IF ~x.instance_ THEN x
    ELSE IF ~IsLive(x) THEN x
    ELSE Call(x, "UpdateBindings")

OpenXR_HandlePreUpdate(x0, events, colorAcquired, depthAcquired, located, poses) ==
    LET x1 == [x0 EXCEPT !.calls = << >>, !.faults = {}, !.polled = << >>,
                         !.returned = [ op |-> "HandlePreUpdate", value |-> "" ]]
        x2 == PollEvents([x1 EXCEPT !.polled = events], events)
        x3 == xrBeginFrame(Call(x2, "xrWaitFrame"))
        x4 == OpenXR_HandlePreRender(x3, colorAcquired, depthAcquired)
        x5 == [x4 EXCEPT !.views_ = located \/ @]
        x6 == IF ~x5.activeActionSet_.null
              THEN OpenXR_UpdateBindings(x5)
              ELSE x5
    IN  IF ~x0.instance_ \/ ~x0.session_ THEN x1
        ELSE IF ~IsLive(x2) THEN x2
        ELSE OpenXR_UpdateHands(x6, poses)

OpenXR_HandlePostRender(x0) ==
    LET x1 == [x0 EXCEPT !.calls = << >>, !.faults = {}, !.polled = << >>,
                         !.returned = [ op |-> "HandlePostRender", value |-> "" ]]
        x2 == xrReleaseSwapchainImage(x1, "color")
        x3 == IF x2.depthChain_ THEN xrReleaseSwapchainImage(x2, "depth") ELSE x2
    IN  IF ~IsLive(x1) THEN x1
        ELSE IF ~x3.views_ THEN x3
        ELSE xrEndFrame(x3)

(***************************************************************************)
(* The subsystem in the engine: frames, and the application opening and    *)
(* shutting the session between any two handlers.                          *)
(***************************************************************************)
ActionSetElements ==
    { [ name |-> n, actions |-> a ] :
          n \in { "default", "menu" }, a \in { << "boolean" >>, << "unknown" >> } }

Manifests ==
    { [ null |-> FALSE, actionsets |-> s ] :
          s \in UNION { [1..n -> ActionSetElements] : n \in 0..MaxSets } }

Created == [1..MaxSets -> { "ok", "xrCreateActionSet", "xrCreateAction" }]

OpenFailures == { "none", "session", "headSpace", "viewSpace", "swapChain" }

RestHand == [ position |-> 0, rotation |-> 0, enabled |-> FALSE,
              vars |-> [ PreviousTransformLocal |-> << >>,
                         PreviousTransformWorld |-> << >> ] ]

RestPoses ==
    [ left |-> [ position |-> 0, orientation |-> 0,
                 positionValid |-> FALSE, orientationValid |-> FALSE ],
      right |-> [ position |-> 0, orientation |-> 0,
                  positionValid |-> FALSE, orientationValid |-> FALSE ] ]

HandPoses ==
    [ position : 0..MaxCoord, orientation : 0..MaxCoord,
      positionValid : BOOLEAN, orientationValid : BOOLEAN ]

GripPoses == [ left : HandPoses, right : HandPoses ]

\* views: whether the field of view of both views_ is non-zero.
XRConstructed(instance, views) ==
    [ pc |-> "BeginFrame", instance_ |-> instance,
      session_ |-> FALSE, headSpace_ |-> FALSE, viewSpace_ |-> FALSE,
      swapChain_ |-> FALSE, depthChain_ |-> FALSE,
      manifest_ |-> nullManifest, actionSets_ |-> {},
      activeActionSet_ |-> nullActionGroup, sessionLive_ |-> FALSE,
      views_ |-> views, rig_ |-> FALSE, handGrips_ |-> << FALSE, FALSE >>,
      rigPosition |-> 0, hands |-> [ left |-> RestHand, right |-> RestHand ],
      runtime |-> NoFrame, calls |-> << >>, faults |-> {}, polled |-> << >>,
      returned |-> [ op |-> "OpenXR", value |-> "" ] ]

InitXR ==
    /\ RigAtRest
    /\ calc = NoCalc
    /\ \E instance \in BOOLEAN, views \in BOOLEAN : xr = XRConstructed(instance, views)

HandlePreUpdate ==
    /\ xr.pc = "BeginFrame"
    /\ \E events \in IF xr.instance_ /\ xr.session_ THEN EventQueues ELSE { << >> },
          colorAcquired \in BOOLEAN,
          depthAcquired \in IF xr.depthChain_ THEN BOOLEAN ELSE { FALSE },
          located \in BOOLEAN,
          poses \in IF xr.handGrips_[1] /\ xr.handGrips_[2] THEN GripPoses ELSE { RestPoses } :
          xr' = [OpenXR_HandlePreUpdate(xr, events, colorAcquired, depthAcquired,
                                        located, poses)
                    EXCEPT !.pc = "EndRendering"]
    /\ UNCHANGED << rigVars, calc >>

HandlePostRender ==
    /\ xr.pc = "EndRendering"
    /\ xr' = [OpenXR_HandlePostRender(xr) EXCEPT !.pc = "BeginFrame"]
    /\ UNCHANGED << rigVars, calc >>

InitializeSession(manifests, outcomes) ==
    /\ xr.pc \in { "BeginFrame", "EndRendering" }
    /\ \E manifest \in manifests \cup { nullManifest },
          failed \in OpenFailures, depth \in BOOLEAN,
          created \in outcomes, ub \in { "crash", "stored" } :
          xr' = OpenXR_InitializeSession(xr, manifest, failed, depth, created, ub)
    /\ UNCHANGED << rigVars, calc >>

ShutdownSession ==
    /\ xr.pc \in { "BeginFrame", "EndRendering" }
    /\ xr' = Returned([OpenXR_ShutdownSession(xr)
                          EXCEPT !.calls = << >>, !.faults = {}, !.polled = << >>],
                      "ShutdownSession", "")
    /\ UNCHANGED << rigVars, calc >>

\* Frames of a session opened from a manifest that the runtime accepts, or
\* from one with an action of an unknown type.
FrameManifests ==
    { [ null |-> FALSE, actionsets |-> s ] :
          s \in { << [ name |-> "default", actions |-> << "boolean" >> ] >>,
                  << [ name |-> "default", actions |-> << "boolean" >> ],
                     [ name |-> "menu", actions |-> << "unknown" >> ] >> } }

Accepted == [ i \in 1..MaxSets |-> "ok" ]

AllCreated == { Accepted }

NextXR ==
    \/ HandlePreUpdate
    \/ HandlePostRender
    \/ InitializeSession(FrameManifests, AllCreated)
    \/ ShutdownSession

SpecXR == InitXR /\ [][NextXR]_vars

\* The session opened and shut, over all the manifests and all the answers
\* of the runtime.
NextSession == InitializeSession(Manifests, Created) \/ ShutdownSession

SpecSession == InitXR /\ [][NextSession]_vars

\* UpdateHands on its own: a live session whose active action set binds the
\* grip pose of both hands, the rig and its hands anywhere.
GripManifest ==
    [ null |-> FALSE,
      actionsets |-> << [ name |-> "default", actions |-> << "pose" >> ] >> ]

GripSession ==
    OpenXR_HandleEvent(
        OpenXR_InitializeSession(XRConstructed(TRUE, FALSE), GripManifest, "none", FALSE,
                                 Accepted, "crash"),
        [ type |-> "SESSION_STATE_CHANGED", state |-> "FOCUSED", beginSession |-> TRUE ])

InitHands ==
    /\ RigAtRest
    /\ calc = NoCalc
    /\ \E rigPosition \in 0..MaxCoord, left \in 0..MaxCoord, right \in 0..MaxCoord :
           xr = [GripSession EXCEPT !.rigPosition = rigPosition,
                                    !.hands.left.position = left,
                                    !.hands.right.position = right]

UpdateHands ==
    /\ xr.pc = "BeginFrame"
    /\ \E poses \in GripPoses :
           xr' = Returned(OpenXR_UpdateHands([xr EXCEPT !.calls = << >>], poses),
                          "UpdateHands", "")
    /\ UNCHANGED << rigVars, calc >>

NextHands == UpdateHands

SpecHands == InitHands /\ [][NextHands]_vars

(***************************************************************************)
(* Properties.                                                             *)
(***************************************************************************)
Resolves(name) == \E n \in Descendants : NameOf(n) = name

AllNamesResolve(c) ==
    /\ Resolves(c.targetName)
    /\ \A i \in DOMAIN c.boneNames : Resolves(c.boneNames[i])

\* The component was initialized in the cache as it is now, with the names
\* it has now.
Initialized(c) ==
    /\ ~host.solversDirty
    /\ lastInit[c] # "none"
    /\ host.pc = "rebuild" => c < host.idx

Solving == host.pc \in {"pull", "internal", "writeback", "solved"}
Current == host.solvers[host.idx]
Owned(c) == { c.solverNodes_[i] : i \in DOMAIN c.solverNodes_ }

\* C1: for every solver type, Initialize returns true exactly when the
\* target name and every bone name resolve to a descendant, and false as
\* soon as one of them does not.
C1_InitializeFailsFast ==
    \A c \in Comps :
        Initialized(c) => ((lastInit[c] = "ok") <=> AllNamesResolve(comps[c]))

\* A Leg solver whose Initialize failed on the toe bone alone, beside a
\* solver whose Initialize succeeded.
C1_Witness ==
    /\ Initialized(1)
    /\ comps[1].type = "Leg"
    /\ lastInit[1] = "failed"
    /\ Resolves(comps[1].targetName)
    /\ \A i \in 1 .. 3 : Resolves(comps[1].boneNames[i])
    /\ ~Resolves(comps[1].boneNames[4])
    /\ \E c \in Comps : Initialized(c) /\ lastInit[c] = "ok"

CacheIsMap ==
    /\ \A n \in Descendants : nodeCache.index[n] \in 0 .. Len(nodeCache.nodes)
    /\ \A n, m \in Descendants :
          nodeCache.index[n] = nodeCache.index[m] /\ nodeCache.index[n] # nullIKNode
              => n = m
    /\ Len(nodeCache.nodes)
          = Cardinality({ n \in Descendants : nodeCache.index[n] # nullIKNode })

OneEntryPerBone ==
    \A c \in Comps :
        Initialized(c) =>
            /\ \A e \in Owned(comps[c]) :
                  e[2] # nullIKNode /\ e[2] = nodeCache.index[e[1]]
            /\ comps[c].target_ # nullNode
                  => nodeCache.index[comps[c].target_] # nullIKNode

\* A registration leaves every entry the cache already holds where and as
\* it is.
RegistrationKeepsEntries ==
    host.pc = "rebuild" /\ host'.pc = "rebuild"
        => /\ Len(nodeCache'.nodes) >= Len(nodeCache.nodes)
           /\ \A k \in 1 .. Len(nodeCache.nodes) :
                  nodeCache'.nodes[k] = nodeCache.nodes[k]
           /\ \A n \in Descendants :
                  nodeCache.index[n] # nullIKNode
                      => nodeCache'.index[n] = nodeCache.index[n]

\* C2: within one node cache every registration of a scene bone, by any
\* component, as a bone or as a target, refers to the one IKNode entry of
\* that bone; registering a cached bone adds no entry and leaves the
\* existing entry as it is.
C2_SharedEntry ==
    /\ [](CacheIsMap /\ OneEntryPerBone)
    /\ [][RegistrationKeepsEntries]_vars

\* Two initialized components own the same scene bone, and the target of one
\* is a bone of the other.
C2_Witness ==
    \E c1, c2 \in Comps :
        /\ c1 # c2
        /\ Initialized(c1) /\ Initialized(c2)
        /\ \E e1 \in Owned(comps[c1]), e2 \in Owned(comps[c2]) : e1[1] = e2[1]
        /\ \E e2 \in Owned(comps[c2]) : comps[c1].target_ = e2[1]

PulledFrom(sc, c) ==
    \A e \in Owned(c) :
        LET n == nodeCache.nodes[e[2]] IN
        /\ n.position = sc[e[1]].position
        /\ n.rotation = sc[e[1]].rotation
        /\ n.previousPosition = sc[e[1]].position
        /\ n.previousRotation = sc[e[1]].rotation

\* C3: a Solve first gives every owned IKNode the world transform of its
\* scene node, stored as the previous transform too; then SolveInternal
\* runs; the scene is written only after SolveInternal has returned.
C3_SolvePhases ==
    /\ host.pc = "internal" => PulledFrom(scene, comps[Current])
    /\ host.pc \in {"internal", "writeback"} => scene = pullScene
    /\ host.pc \in {"writeback", "solved"} =>
          \A e \in Owned(comps[Current]) :
              /\ nodeCache.nodes[e[2]].previousPosition = pullScene[e[1]].position
              /\ nodeCache.nodes[e[2]].previousRotation = pullScene[e[1]].rotation

\* SolveInternal has posed a node away from its scene transform and has
\* returned, and the scene is still as it was when the Solve began.
C3_Witness ==
    /\ host.pc = "writeback"
    /\ scene = pullScene
    /\ \E e \in Owned(comps[Current]) :
          /\ nodeCache.nodes[e[2]].position # scene[e[1]].position
          /\ nodeCache.nodes[e[2]].rotation # scene[e[1]].rotation

C5_FlagsClearAtSolveInternal ==
    host.pc = "internal" =>
        \A e \in Owned(comps[Current]) :
            /\ ~nodeCache.nodes[e[2]].positionDirty
            /\ ~nodeCache.nodes[e[2]].rotationDirty

\* C6: a component whose most recent Initialize returned false is not
\* solved, so a Solve never runs with an unresolved target or bone.
C6_InvalidNeverSolved ==
    Solving =>
        /\ lastInit[Current] = "ok"
        /\ comps[Current].target_ # nullNode
        /\ comps[Current].type = "Identity" => comps[Current].boneNode_ # nullIKNode
        /\ AllNamesResolve(comps[Current])

\* The first component failed to initialize, the frame solves another one;
\* and the first component is solved once a later Initialize succeeded.
C6_Witness ==
    /\ host.pc = "internal"
    /\ host.frame > 1
    /\ Current # 1
    /\ lastInit[1] = "failed"

\* C7: after an Identity solver's Solve the bone's world position is the
\* target's world position, its world rotation is the target's world
\* rotation times the rotation offset, and both were written by this Solve.
C7_IdentityPosesBone ==
    host.pc = "solved" /\ comps[Current].type = "Identity" =>
        LET c == comps[Current]
            bone == c.solverNodes_[1][1]
        IN  /\ scene[bone].position = pullScene[c.target_].position
            /\ scene[bone].rotation
                  = QuatMul(pullScene[c.target_].rotation, c.rotationOffset_)
            /\ << bone, "position" >> \in wrote
            /\ << bone, "rotation" >> \in wrote

\* An Identity solve with a target away from the bone, whose rotation does
\* not commute with the offset.
C7_Witness ==
    /\ host.pc = "solved"
    /\ comps[Current].type = "Identity"
    /\ LET c == comps[Current]
           bone == c.solverNodes_[1][1]
       IN  /\ bone # c.target_
           /\ pullScene[bone] # pullScene[c.target_]
           /\ QuatMul(pullScene[c.target_].rotation, c.rotationOffset_)
                 # QuatMul(c.rotationOffset_, pullScene[c.target_].rotation)

\* C8 as stated: a zero rotation offset is recomputed from the bone's and
\* the target's current rotation (the offset that takes the target's
\* rotation to the bone's); a non-zero offset is left unchanged.
C8_OffsetFromTarget ==
    host.pc = "writeback" /\ comps[Current].type = "Identity" =>
        LET c == comps[Current]
            bone == c.solverNodes_[1][1]
        IN  c.rotationOffset_ =
                IF pullOffset = Quaternion_ZERO
                THEN QuatMul(QuatInverse(pullScene[c.target_].rotation),
                             pullScene[bone].rotation)
                ELSE pullOffset

\* C8, amended: a zero rotation offset is recomputed, before the bone is
\* posed, as the inverse of the world rotation of the component's own node
\* times the bone's current world rotation; a non-zero offset is left
\* unchanged.
C8_OffsetFromOwnNode ==
    host.pc = "writeback" /\ comps[Current].type = "Identity" =>
        LET c == comps[Current]
            bone == c.solverNodes_[1][1]
        IN  /\ c.rotationOffset_ =
                  IF pullOffset = Quaternion_ZERO
                  THEN QuatMul(QuatInverse(pullScene[node_].rotation),
                               pullScene[bone].rotation)
                  ELSE pullOffset
            /\ nodeCache.nodes[c.boneNode_].rotation
                  = QuatMul(pullScene[c.target_].rotation, c.rotationOffset_)

\* A solve that began with a zero offset and recomputed it, with a target
\* rotated otherwise than the component's node.
C8_Witness ==
    /\ host.pc = "writeback"
    /\ comps[Current].type = "Identity"
    /\ pullOffset = Quaternion_ZERO
    /\ comps[Current].rotationOffset_ # Quaternion_ZERO
    /\ pullScene[comps[Current].target_].rotation # pullScene[node_].rotation

\* The lesser of two numbers, neither of them NaN.
IsLesserOf(r, x, y) == r \in {x, y} /\ ~RGt(r, x) /\ ~RGt(r, y)

\* C9: when sideBC * sin(angleACB) / sideAB > 1, GetThighToHeelDistance
\* returns min(sideAB + sideBC, maxDistance); otherwise it returns
\* min(thighToToe * sin(toeAngle) / sin(heelAngle), maxDistance), where
\* toeAngle is 180 - heelAngle - thighAngle and thighAngle is the angle
\* in [-90, 90] whose sine is the ratio: on a proper triangle this is the
\* distance the law of cosines gives for an acute thigh angle.  The result
\* never exceeds maxDistance.
C9_AmbiguousTriangleFallback ==
    calc.pc = "done" /\ calc.op = "GetThighToHeelDistance" =>
        LET AB == calc.thighToToeDistance
            BC == calc.toeToHeelDistance
            sinH == calc.heelAngle.s
            cosH == calc.heelAngle.c
            M == calc.maxDistance
            ratio == RDiv(RMul(BC, sinH), AB)
            sinT == IF RLt(ratio, RNeg(One)) THEN RNeg(One) ELSE ratio
            cosT == Sqrt(RSub(One, RMul(sinT, sinT)))
            sinToe == RAdd(RMul(sinH, cosT), RMul(cosH, sinT))
            distance == RDiv(RMul(AB, sinToe), sinH)
        IN  /\ ~RGt(calc.result, M)
            /\ RGt(ratio, One) => IsLesserOf(calc.result, RAdd(AB, BC), M)
            /\ ~RGt(ratio, One) =>
                  IF IsNaN(distance) THEN IsNaN(calc.result)
                  ELSE IsLesserOf(calc.result, distance, M)
            /\ ~RGt(ratio, One) /\ RGt(AB, Zero) /\ RGt(sinH, Zero) =>
                  LET d == RAdd(RMul(BC, cosH),
                                Sqrt(RSub(RMul(AB, AB),
                                          RMul(RMul(BC, BC), RMul(sinH, sinH)))))
                  IN  /\ IsLesserOf(calc.result, d, M)
                      /\ RMul(AB, AB) = RSub(RAdd(RMul(BC, BC), RMul(d, d)),
                                             RMul(R(2, 1), RMul(RMul(BC, d), cosH)))

\* The heel cannot be placed at the heel angle (the sine is above 1) and
\* the fully extended leg is longer than maxDistance.
C9_Witness ==
    /\ calc.pc = "done"
    /\ calc.op = "GetThighToHeelDistance"
    /\ RGt(calc.thighToToeDistance, Zero)
    /\ RGt(RDiv(RMul(calc.toeToHeelDistance, calc.heelAngle.s), calc.thighToToeDistance),
           One)
    /\ RLt(calc.maxDistance, RAdd(calc.thighToToeDistance, calc.toeToHeelDistance))
    /\ calc.result = calc.maxDistance

TrigSolved == calc.pc = "done" /\ calc.op = "IKTrigonometrySolver::SolveInternal"

\* The angle limits are ordered.
OrderedLimits == ~AngleLt(calc.maxAngle_, calc.minAngle_)

\* The square of the distance between the ends of the chain bent to the angle.
ReachSquared(angle) ==
    RSub(RAdd(RMul(calc.firstLength, calc.firstLength),
              RMul(calc.secondLength, calc.secondLength)),
         RMul(R(2, 1), RMul(RMul(calc.firstLength, calc.secondLength), angle.c)))

TargetReached ==
    /\ SamePoint(calc.result.endPosition, calc.targetPosition)
    /\ ~AngleLt(calc.result.middleAngle, calc.minAngle_)
    /\ ~AngleLt(calc.maxAngle_, calc.result.middleAngle)

\* C10 as stated: for every target whose distance from the begin node is at
\* most the sum of the segment lengths and at least their difference, the
\* solved end node is at the target and the middle angle is within
\* [minAngle, maxAngle].
C10_ReachableTargetReached ==
    TrigSolved /\ OrderedLimits =>
        LET a == calc.firstLength
            b == calc.secondLength
            d == calc.targetPosition.distance
        IN  ~RGt(d, RAdd(a, b)) /\ ~RLt(d, RSub(a, b)) /\ ~RLt(d, RSub(b, a))
                => TargetReached

\* C10, amended: for every target whose distance from the begin node is
\* between the reach of the chain bent to minAngle and its reach bent to
\* maxAngle, the solved end node is at the target and the middle angle is
\* within [minAngle, maxAngle]; it is the angle of the triangle of the two
\* segments and the target distance.
C10_TargetWithinLimitsReached ==
    TrigSolved /\ OrderedLimits =>
        LET a == calc.firstLength
            b == calc.secondLength
            d == calc.targetPosition.distance
        IN  ~RLt(RMul(d, d), ReachSquared(calc.minAngle_))
            /\ ~RGt(RMul(d, d), ReachSquared(calc.maxAngle_))
                => /\ TargetReached
                   /\ RMul(d, d) = ReachSquared(calc.result.middleAngle)

\* A target inside the reach of limits narrower than [0, 180], bent to an
\* angle strictly between the limits.
C10_Witness ==
    /\ TrigSolved
    /\ AngleLt(calc.minAngle_, calc.result.middleAngle)
    /\ AngleLt(calc.result.middleAngle, calc.maxAngle_)
    /\ AngleLt(Angle(0, 1, 1), calc.minAngle_) \/ AngleLt(calc.maxAngle_, Straight)
    /\ RGt(calc.targetPosition.distance, Zero)
    /\ SamePoint(calc.result.endPosition, calc.targetPosition)

\* The chain is bent to maxAngle and its end is on the ray to the target at
\* the reach of that angle, which the unstretched segments span.
FullyExtended ==
    /\ calc.result.middleAngle = calc.maxAngle_
    /\ calc.result.endPosition.direction = calc.targetPosition.direction
    /\ calc.result.endPosition.distance = GetMaxDistance(calc, calc.maxAngle_)
    /\ RMul(calc.result.endPosition.distance, calc.result.endPosition.distance)
          = ReachSquared(calc.result.middleAngle)

BeyondReach == RGt(calc.targetPosition.distance, GetMaxDistance(calc, calc.maxAngle_))

FabrikSolving == calc.op = "IKChainSolver::SolveInternal"
FabrikDone == FabrikSolving /\ calc.pc = "done"

\* C12: every solve of the Chain solver terminates: the loop of passes ends
\* when the end node is within the tolerance of the target or when the
\* iteration cap is reached, so no solve runs more passes than the cap.
C12_FabrikTerminates ==
    /\ [](FabrikSolving /\ calc.pc # "call" => calc.iteration <= calc.settings.maxIterations_)
    /\ [](FabrikDone =>
            \/ FabrikConverged(calc.positions, calc.targetWorldPosition,
                               calc.settings.tolerance_)
            \/ calc.iteration = calc.settings.maxIterations_)
    /\ <>FabrikDone

\* A solve towards a target out of reach ends at the cap, not converged.
C12_Witness ==
    /\ FabrikDone
    /\ calc.iteration = calc.settings.maxIterations_
    /\ calc.iteration > 1
    /\ ~FabrikConverged(calc.positions, calc.targetWorldPosition, calc.settings.tolerance_)

\* C13: after a solve of the Chain solver that has converged, the end node
\* is within the tolerance of the target, the root node is at its original
\* position, and every segment has its cached length.
C13_FabrikKeepsChain ==
    FabrikDone /\ FabrikConverged(calc.positions, calc.target, calc.tolerance) =>
        /\ Abs(calc.positions[Len(calc.positions)] - calc.targetWorldPosition)
              <= calc.settings.tolerance_
        /\ calc.positions[1] = calc.initial[1]
        /\ \A i \in 1 .. Len(calc.lengths) :
              Abs(calc.positions[i + 1] - calc.positions[i]) = calc.lengths[i]

\* A chain of two segments folded over to reach a target it was not at.
C13_Witness ==
    /\ FabrikDone
    /\ Len(calc.lengths) = 2
    /\ calc.positions[3] = calc.targetWorldPosition
    /\ calc.initial[3] # calc.targetWorldPosition
    /\ calc.positions[2] # calc.initial[2]

LegSolved == calc.op = "IKLegSolver::SolveInternal" /\ calc.pc = "done"

\* C14: after every solve of the Leg solver, for every bend weight and every
\* target, the blended toe-to-heel offset has the cached length of the foot
\* segment, and so has the distance from the heel to the toe, which is put
\* at the heel minus the offset.
C14_FootKeepsLength ==
    LegSolved =>
        /\ calc.result.toeToHeel = calc.footLength
        /\ calc.result.heelToToeDistance = calc.footLength

\* Degenerate geometry: the toe target at the thigh, a foot of length zero,
\* or a heel angle that is zero or negative.
DegenerateLeg ==
    \/ calc.thighToToeDistance = Zero
    \/ calc.footLength = Zero
    \/ ~RGt(Sin(calc.result.solver.minHeelAngle_), Zero)

\* No divisor of the triangle helpers is zero in the solve.
NoDivisionByZero ==
    /\ calc.thighToToeDistance # Zero
    /\ RMul(RMul(R(2, 1), calc.thighToToeDistance), calc.footLength) # Zero
    /\ SolveAmbiguousTriangle(calc.thighToToeDistance, calc.footLength,
                              calc.result.solver.minHeelAngle_).has
          => Sin(calc.result.solver.minHeelAngle_) # Zero

\* C18: for degenerate geometry the triangle helpers of the Leg solver never
\* divide by zero, and each of their results is a defined number: neither
\* not-a-number nor an infinity.
C18_HelpersDefined ==
    LegSolved /\ DegenerateLeg =>
        /\ NoDivisionByZero
        /\ IsFinite(calc.result.thighToHeelDistance)
        /\ IsFinite(Sin(calc.result.toeAngle)) /\ IsFinite(Cos(calc.result.toeAngle))
        /\ IsFinite(calc.result.toeToHeel0)

RAbs(x) == << Abs(x[1]), x[2] >>

\* a * a + b * b - 2 * a * b * cos(angle).
ThirdSideSquared(a, b, angle) ==
    RSub(RAdd(RMul(a, a), RMul(b, b)), RMul(RMul(RMul(R(2, 1), a), b), Cos(angle)))

\* C20: GetMaxDistance is the third side of the triangle with the sides
\* firstLength and secondLength and the included angle maxAngle: its square
\* is a^2 + b^2 - 2ab cos(maxAngle), it is a + b at 180 degrees and |a - b|
\* at 0 degrees, it does not decrease when maxAngle grows within [0, 180],
\* and it lies in [|a - b|, a + b].
C20_MaxDistanceIsThirdSide ==
    LegSolved =>
        LET a == calc.firstLength
            b == calc.secondLength
            maxAngle == FromDegrees(calc.result.solver.maxKneeAngle_)
            d == calc.result.maxDistance
        IN  /\ IsFinite(d) /\ ~RLt(d, Zero)
            /\ RMul(d, d) = ThirdSideSquared(a, b, maxAngle)
            /\ maxAngle = Straight => d = RAdd(a, b)
            /\ maxAngle = Angle(0, 1, 1) => d = RAbs(RSub(a, b))
            /\ ~RLt(d, RAbs(RSub(a, b))) /\ ~RGt(d, RAdd(a, b))
            /\ \A smaller \in LimitAngles :
                  AngleLt(smaller, maxAngle) /\ HasSqrt(ThirdSideSquared(a, b, smaller))
                     => ~RGt(GetMaxDistance(calc, smaller), d)

\* A leg of unequal segments with a knee limit strictly inside (0, 180).
C20_Witness ==
    /\ LegSolved
    /\ calc.firstLength # calc.secondLength
    /\ AngleLt(Angle(0, 1, 1), FromDegrees(calc.result.solver.maxKneeAngle_))
    /\ AngleLt(FromDegrees(calc.result.solver.maxKneeAngle_), Straight)
    /\ RGt(calc.result.maxDistance, RAbs(RSub(calc.firstLength, calc.secondLength)))
    /\ RLt(calc.result.maxDistance, RAdd(calc.firstLength, calc.secondLength))

\* The current component's IKNodes hold the transforms of the scene sc.
Observes(sc) ==
    \A e \in Owned(comps[Current]) :
        /\ nodeCache.nodes[e[2]].position = sc[e[1]].position
        /\ nodeCache.nodes[e[2]].rotation = sc[e[1]].rotation

\* From the pull of a component to its write-back the host stays with it,
\* no component is initialized or edited and the animation poses no node.
SolveIsNotInterleaved ==
    host.pc \in {"internal", "writeback"} =>
        /\ host'.idx = host.idx
        /\ host'.solvers = host.solvers
        /\ host.pc = "internal" => scene' = scene /\ host'.pc = "writeback"
        /\ host.pc = "writeback" => host'.pc = "solved"
        /\ \A c \in Comps : c # Current => comps'[c] = comps[c]

\* C16: when the components of a rig are solved one after another, the
\* SolveInternal of each finds in every IKNode it owns the scene transform
\* of the moment its own Solve began, which holds what the components
\* solved before it have written back, and no other component's solve runs
\* between its pull and its write-back.
C16_SolvesAreSequential ==
    /\ [](host.pc = "internal" => Observes(pullScene) /\ pullScene = scene)
    /\ [][SolveIsNotInterleaved]_vars

\* The Chain solver is about to run SolveInternal on a bone it shares with
\* the Identity solver, which has posed the bone in this frame.
C16_Witness ==
    /\ host.pc = "internal"
    /\ host.idx = 2
    /\ \E e \in Owned(comps[Current]) \cap Owned(comps[host.solvers[1]]) :
          /\ nodeCache.nodes[e[2]].rotation = scene[e[1]].rotation
          /\ nodeCache.nodes[e[2]].rotationDirty
          /\ scene[e[1]].rotation \notin { pose.rotation : pose \in Poses }

\* The distances between the scene positions of the chain's bones.
MeasuredLengths(c) == UpdateChainLengths(c, PositionsReady(c)).lengths_

\* C17: the cached lengths of a component change only when the host tells
\* it that the positions are ready (NotifyPositionsReady, which calls
\* UpdateChainLengths); no step of Solve changes a cached length, though it
\* moves the nodes the lengths were measured between.
C17_LengthsOnlyByUpdate ==
    [][\A c \in Comps :
          /\ Solving => comps'[c].lengths_ = comps[c].lengths_
          /\ comps'[c].lengths_ # comps[c].lengths_
                => host.pc = "rebuild" /\ host.idx > NumComps]_vars

\* A Chain solver has been solved and its bones are no longer at the
\* distance that is cached.
C17_Witness ==
    /\ host.pc = "solved"
    /\ comps[Current].type = "Chain"
    /\ wrote # {}
    /\ comps[Current].lengths_ # << >>
    /\ MeasuredLengths(comps[Current]) # comps[Current].lengths_

\* The component is configured as its last Initialize found it.
InitializedAsConfigured(c) ==
    /\ c.target_ = GetChild(c.targetName)
    /\ { e[1] : e \in Owned(c) } = { GetChild(c.boneNames[i]) : i \in DOMAIN c.boneNames }

\* The editor changes a name of the component, or adds it to or removes it
\* from the node.
TopologyEdit(c) ==
    \/ comps'[c].targetName # comps[c].targetName
    \/ comps'[c].boneNames # comps[c].boneNames
    \/ comps'[c].attached # comps[c].attached

\* The editor changes the rotation offset.
NumericEdit(c) ==
    host.pc = "idle" /\ comps'[c].rotationOffset_ # comps[c].rotationOffset_

\* C19: a change of the target name or of a bone name of a component of the
\* rig, and adding the component to or removing it from the node, mark the
\* solvers dirty, and no component is solved before the rebuild has
\* initialized it again with its current names; a change of a numeric
\* parameter marks nothing dirty, initializes nothing and is what the next
\* solve computes with.
C19_EditsMarkDirty ==
    /\ [][\A c \in Comps :
             TopologyEdit(c) /\ (comps[c].attached \/ comps'[c].attached)
                => host'.solversDirty]_vars
    /\ [](Solving =>
             /\ ~host.solversDirty
             /\ comps[Current].attached
             /\ InitializedAsConfigured(comps[Current]))
    /\ [][\A c \in Comps :
             NumericEdit(c) =>
                host' = host /\ nodeCache' = nodeCache /\ lastInit' = lastInit]_vars
    /\ [](host.pc = "solved" /\ comps[Current].type = "Identity" =>
             scene[comps[Current].solverNodes_[1][1]].rotation
                = QuatMul(pullScene[comps[Current].target_].rotation,
                          comps[Current].rotationOffset_))

\* The first component is solved in a later frame with a target name and
\* bone names that the editor has set after the first rebuild.
C19_Witness ==
    /\ host.pc = "solved"
    /\ Current = 1
    /\ host.frame > 1
    /\ comps[1].targetName # NumNodes
    /\ \E i \in DOMAIN comps[1].boneNames : comps[1].boneNames[i] # 1

\* C15: Solve is idempotent: a second Solve in succession, with the target,
\* the parameters and the rest data unchanged, leaves every owned bone with
\* the world transform the first Solve has given it.
C15_SolveIsIdempotent ==
    calc.op = "IKArmSolver::Solve" /\ calc.solves = 2 =>
        calc.scene = calc.first

ArmSolved == calc.op = "IKArmSolver::Solve" /\ calc.solves > 0

InUnit(x) == ~RLt(x, Zero) /\ ~RGt(x, One)
InHalfTurn(degrees) == ~RLt(degrees, R(0, 1)) /\ ~RGt(degrees, R(180, 1))

\* The parameters of the last solve are in their ranges.
ParametersClamped ==
    /\ LegSolved =>
          /\ InUnit(calc.result.solver.bendWeight_)
          /\ InHalfTurn(calc.result.legChain_Solve.minAngle)
          /\ InHalfTurn(calc.result.legChain_Solve.maxAngle)
    /\ ArmSolved =>
          /\ InHalfTurn(calc.armChain_Solve.minAngle)
          /\ InHalfTurn(calc.armChain_Solve.maxAngle)
          /\ InUnit(calc.shoulderWeight_[1]) /\ InUnit(calc.shoulderWeight_[2])

\* C21: whatever values were configured, the chain solve of the Leg and Arm
\* solvers is invoked with in-range parameters: the Leg solver's bendWeight
\* is in [0, 1] and both knee limits in [0, 180], the Arm solver's elbow
\* limits are in [0, 180] and both shoulder weights in [0, 1], and the
\* minimum angle passed to the chain solve is not greater than the maximum.
C21_ParametersInRange ==
    /\ ParametersClamped
    /\ LegSolved =>
          ~RGt(calc.result.legChain_Solve.minAngle, calc.result.legChain_Solve.maxAngle)
    /\ ArmSolved =>
          ~RGt(calc.armChain_Solve.minAngle, calc.armChain_Solve.maxAngle)

ShoulderToArm == Vector3_Sub(calc.shoulderSegment_.endNode_.position_,
                             calc.shoulderSegment_.beginNode_.position_)
RestShoulderToArm == Vector3_Sub(calc.shoulderSegment_.endNode_.originalPosition_,
                                 calc.shoulderSegment_.beginNode_.originalPosition_)
\* The offset of the shoulder, as the solve found it, from its rest position.
ShoulderOffset == Vector3_Sub(calc.pulled.shoulder.position,
                              calc.shoulderSegment_.beginNode_.originalPosition_)

\* C22: the shoulder rotation does not compound across solves.  After every
\* solve of the Arm solver, however many ran before, the shoulder node is
\* where the solve found it, the shoulder-to-arm vector is the applied
\* rotation of the rest-pose shoulder-to-arm vector, and the segment has its
\* rest length; with both shoulder weights 0 the two nodes are at their
\* rest positions moved by the offset of the shoulder.
C22_ShoulderRotatesFromRest ==
    ArmSolved =>
        /\ calc.shoulderSegment_.beginNode_.position_ = calc.pulled.shoulder.position
        /\ ShoulderToArm = Quaternion_Mul_Vector3(calc.shoulderRotation, RestShoulderToArm)
        /\ Vector3_LengthSquared(ShoulderToArm) = Vector3_LengthSquared(RestShoulderToArm)
        /\ calc.shoulderWeight_ = Vector2_ZERO =>
              /\ calc.shoulderSegment_.beginNode_.position_
                    = Vector3_Add(calc.shoulderSegment_.beginNode_.originalPosition_,
                                  ShoulderOffset)
              /\ calc.shoulderSegment_.endNode_.position_
                    = Vector3_Add(calc.shoulderSegment_.endNode_.originalPosition_,
                                  ShoulderOffset)

\* A second solve that turns a shoulder that is off its rest position, from
\* a scene that the first solve has posed away from the rest pose.
C22_Witness ==
    /\ ArmSolved
    /\ calc.solves = 2
    /\ calc.shoulderRotation # 0
    /\ ShoulderOffset # Vector3_ZERO
    /\ Vector3_Sub(calc.pulled.arm.position, calc.pulled.shoulder.position)
          # RestShoulderToArm
    /\ ShoulderToArm # RestShoulderToArm

Drawn == calc # NoCalc /\ calc.pc = "drawn"

\* The first rebuild is the only one so far, and the component did not come
\* out of it initialized: it was never successfully initialized.
NeverInitialized(c) == host.frame <= 1 /\ lastInit[c] # "ok"

\* C23: DrawDebugGeometry of every solver type is read-only: the step
\* changes no IKNode position, rotation or dirty flag, no solver parameter
\* and no scene transform; it reads no null chain node, and on a component
\* that was never successfully initialized it reads no IKNode at all.
C23_DrawIsReadOnly ==
    [][ calc = NoCalc /\ calc' # NoCalc =>
           /\ UNCHANGED << scene, comps, nodeCache, host >>
           /\ nullIKNode \notin calc'.reads
           /\ NeverInitialized(calc'.comp) => calc'.reads = {} ]_vars

\* A Leg solver whose first Initialize failed is drawn.
C23_Witness ==
    /\ Drawn
    /\ NeverInitialized(calc.comp)
    /\ lastInit[calc.comp] = "failed"
    /\ comps[calc.comp].type = "Leg"
    /\ comps[calc.comp].target_ # nullNode

\* The scene nodes an Initialize of c binds as bones: none when the target
\* does not resolve, else those of the bone names in order up to the first
\* name that does not resolve.
ResolvedBones(c) ==
    IF ~Resolves(c.targetName) THEN << >>
    ELSE LET k == CHOOSE k \in 0 .. Len(c.boneNames) :
                     /\ \A i \in 1 .. k : Resolves(c.boneNames[i])
                     /\ k < Len(c.boneNames) => ~Resolves(c.boneNames[k + 1])
         IN  [i \in 1 .. k |-> GetChild(c.boneNames[i])]

\* C24: after any Initialize call, successful or not, the list of owned
\* solver nodes holds exactly the bones that call resolved, in binding
\* order, each with its cache entry, and the target is in the cache without
\* being owned; and a Solve writes the world transform of the component's
\* target node only if that scene node is also bound as one of its bones.
C24_OwnedAreResolvedBones ==
    [][ /\ \A c \in Comps :
              host.pc = "rebuild" /\ host.idx = c /\ host'.idx = c + 1 /\ comps[c].attached =>
                 LET bones == ResolvedBones(comps[c]) IN
                 /\ Len(comps'[c].solverNodes_) = Len(bones)
                 /\ \A i \in DOMAIN bones :
                       /\ comps'[c].solverNodes_[i][1] = bones[i]
                       /\ comps'[c].solverNodes_[i][2] = nodeCache'.index[bones[i]]
                       /\ nodeCache'.index[bones[i]] # nullIKNode
                 /\ comps'[c].target_ # nullNode =>
                       nodeCache'.index[comps'[c].target_] # nullIKNode
        /\ host.pc = "writeback" =>
              \A w \in wrote' :
                 w[1] = comps[Current].target_ =>
                    \E j \in DOMAIN comps[Current].boneNames :
                       GetChild(comps[Current].boneNames[j]) = w[1] ]_vars

\* A solver with two bones or more, initialized for the second time, has
\* posed its bones and none of them is its target.
C24_Witness ==
    /\ host.pc = "solved"
    /\ host.frame >= 2
    /\ Current = 1
    /\ wrote # {}
    /\ Len(comps[1].solverNodes_) >= 2
    /\ \A i \in DOMAIN comps[1].solverNodes_ :
          comps[1].solverNodes_[i][1] # comps[1].target_

\* C25: xrBeginFrame and xrEndFrame alternate.  No handler begins a frame
\* while the frame begun before is not ended, none ends a frame that was not
\* begun, and when HandlePostRender has returned no frame is left begun.
C25_FramesAlternate ==
    /\ "xrBeginFrame: the frame begun before was not ended" \notin xr.faults
    /\ "xrEndFrame: no frame was begun" \notin xr.faults
    /\ xr.returned.op = "HandlePostRender" => ~xr.runtime.frame

\* C26: the images of the swap chains are acquired and released in pairs.
\* HandlePostRender releases an image of a swap chain only if one was acquired
\* from it, no image is acquired while the one acquired before is not
\* released, and when HandlePostRender has returned no image is held.
C26_ImagesPaired ==
    /\ "xrReleaseSwapchainImage: no image was acquired" \notin xr.faults
    /\ "xrAcquireSwapchainImage: the image acquired before was not released"
           \notin xr.faults
    /\ xr.returned.op = "HandlePostRender" => ~xr.runtime.color /\ ~xr.runtime.depth

HandlePreUpdateStep ==
    /\ xr.pc = "BeginFrame"
    /\ xr'.pc = "EndRendering"
    /\ xr'.returned.op = "HandlePreUpdate"

FrameCalls ==
    { "xrWaitFrame", "xrBeginFrame", "xrAcquireSwapchainImage", "UpdateBindings",
      "UpdateHands" }

IssuesFrameCalls(x) == \E i \in DOMAIN x.calls : x.calls[i] \in FrameCalls

StartsSession(e) ==
    /\ e.type = "SESSION_STATE_CHANGED"
    /\ \/ e.state = "FOCUSED"
       \/ e.state = "READY" /\ e.beginSession

StopsSession(e) ==
    \/ e.type = "INSTANCE_LOSS_PENDING"
    \/ /\ e.type = "SESSION_STATE_CHANGED"
       /\ \/ e.state \in { "IDLE", "STOPPING", "EXITING", "LOSS_PENDING" }
          \/ e.state = "READY" /\ ~e.beginSession

\* Whether the session is live after the events, by the last of them that
\* starts or stops it.
LiveAfter(live, events) ==
    LET decisive == { i \in DOMAIN events :
                          StartsSession(events[i]) \/ StopsSession(events[i]) }
    IN  IF decisive = {} THEN live
        ELSE StartsSession(events[CHOOSE i \in decisive : \A j \in decisive : j <= i])

\* C27: per-frame work happens only while the session is live.  HandlePreUpdate
\* changes nothing and asks the runtime nothing when the instance or the
\* session is absent; it issues the calls of a frame only if the session is
\* live after the events it polled; the session becomes live only in a
\* HandlePreUpdate that polled FOCUSED or a READY whose xrBeginSession
\* succeeded; after the events the session is live or not by the last event
\* that starts or stops it; and it is not live after ShutdownSession.
C27_WorkOnlyWhileLive ==
    [][ /\ HandlePreUpdateStep =>
            /\ (~xr.instance_ \/ ~xr.session_) =>
                   /\ xr'.calls = << >>
                   /\ xr'.polled = << >>
                   /\ [xr' EXCEPT !.pc = xr.pc, !.returned = xr.returned,
                                  !.calls = xr.calls, !.faults = xr.faults,
                                  !.polled = xr.polled] = xr
            /\ IssuesFrameCalls(xr') => IsLive(xr')
            /\ (xr.instance_ /\ xr.session_) =>
                   xr'.sessionLive_ = LiveAfter(xr.sessionLive_, xr'.polled)
        /\ (xr'.sessionLive_ /\ ~xr.sessionLive_) =>
               /\ HandlePreUpdateStep
               /\ \E i \in DOMAIN xr'.polled : StartsSession(xr'.polled[i])
        /\ xr'.returned.op = "ShutdownSession" => ~xr'.sessionLive_
      ]_vars

\* A HandlePreUpdate that polled a stopping and then a starting event and went
\* on to begin a frame.
C27_Witness ==
    /\ xr.returned.op = "HandlePreUpdate"
    /\ Len(xr.polled) = 2
    /\ StopsSession(xr.polled[1])
    /\ StartsSession(xr.polled[2])
    /\ xr.sessionLive_
    /\ IssuesFrameCalls(xr)

SessionReleased(x) ==
    /\ ~x.session_
    /\ ~x.headSpace_
    /\ ~x.viewSpace_
    /\ ~x.swapChain_
    /\ ~x.depthChain_
    /\ x.manifest_ = nullManifest
    /\ x.actionSets_ = {}
    /\ x.activeActionSet_ = nullActionGroup
    /\ ~x.sessionLive_

OpenSessionFailures ==
    { "false: session", "false: spaces", "false: swapChain" }

\* C28: a failed InitializeSession leaves no session behind.  When
\* InitializeSession returns false because OpenSession failed (at the session,
\* at a reference space or at the color swap chain), the session, both
\* spaces, both swap chains, the manifest, the action sets and the active
\* action set are released and the session is not live; ShutdownSession
\* leaves the same from any state, and a second ShutdownSession changes
\* nothing.
C28_FailedSessionIsReleased ==
    [][ /\ ( /\ xr'.returned.op = "InitializeSession"
             /\ xr'.returned.value \in OpenSessionFailures ) => SessionReleased(xr')
        /\ xr'.returned.op = "ShutdownSession" =>
               /\ SessionReleased(xr')
               /\ OpenXR_ShutdownSession(xr') = xr'
               /\ OpenXR_ShutdownSession(OpenXR_ShutdownSession(xr))
                      = OpenXR_ShutdownSession(xr)
      ]_vars

\* An InitializeSession that had made the session, the spaces and the action
\* sets of the manifest, failed at the color swap chain, and returned.
C28_Witness ==
    /\ xr.returned = [ op |-> "InitializeSession", value |-> "false: swapChain" ]
    /\ SessionReleased(xr)

FullyBuilt(group) ==
    /\ ~group.null
    /\ group.bindings # << >>
    /\ \A i \in DOMAIN group.bindings : ParseBindingType(group.bindings[i])

\* C29: BindActions never reads through and never stores a null action group.
\* No call stops at the read of the name of a group that was not created, and
\* every entry of actionSets_ is a fully built group under its own name.
C29_NoNullActionGroup ==
    /\ xr.pc # "crashed"
    /\ \A e \in xr.actionSets_ : FullyBuilt(e.value) /\ e.key = e.value.name

UpdateHandsStep ==
    /\ xr'.returned.op = "UpdateHands"
    /\ xr'.calls = << "UpdateHands" >>

\* C30: an UpdateHands that updates the hands sets PreviousTransformLocal and
\* PreviousTransformWorld of each hand node to the local and the world
\* transform that same node had before the call.
C30_PreviousTransformIsOwn ==
    [][ UpdateHandsStep =>
            /\ xr'.hands.left.vars.PreviousTransformLocal
                   = Node_GetTransformMatrix(xr.hands.left)
            /\ xr'.hands.left.vars.PreviousTransformWorld
                   = Node_GetWorldTransform(xr, xr.hands.left)
            /\ xr'.hands.right.vars.PreviousTransformLocal
                   = Node_GetTransformMatrix(xr.hands.right)
            /\ xr'.hands.right.vars.PreviousTransformWorld
                   = Node_GetWorldTransform(xr, xr.hands.right)
      ]_vars
====
